---------------------------- MODULE Spec2Model ----------------------------
(***************************************************************************)
(* cto-stats: the calculate command (src/command/calculate/calculate.go)   *)
(* and the issue import (src/unnamed/part_002, package cmdimport).         *)
(*                                                                         *)
(* Time is counted in whole days since a Monday 00:00 UTC (day 0).  ISO    *)
(* year/week pairs are represented by the day number of the week's Monday. *)
(* A *time.Time that may be nil is <<>> (nil) or <<t>>.                    *)
(***************************************************************************)
EXTENDS Integers, Sequences, FiniteSets, TLC

\* ------------------------------------------------------------------ bounds

\* Input timestamps are drawn from {0, TickDays, 2*TickDays, ..., MaxTick*TickDays}.
TickDays == 6
MaxTick == 2
\* Longest board history of the first issue; the second issue carries one row less.
MaxProjRows == 2
\* Closed/reopened rows per issue after the seeded "opened" row.
MaxStatusRows == 2
\* Completion times handed to writeWeeklyThroughput are drawn from
\* {0, EndStepDays, ..., MaxEndTick*EndStepDays}; at most MaxClosed of them.
EndStepDays == 10
MaxEndTick == 10
MaxClosed == 4

\* ------------------------------------------------------- program constants

\* cur.AddDate(0, 0, 7): the week axis advances by seven days.
WeekDays == 7
\* Control limits are recomputed every sixth week of the axis.
BlockWeeks == 6

Times == {k * TickDays : k \in 0..MaxTick}
Horizon == MaxTick * TickDays

\* ------------------------------------------------------------ basic helpers

Nil == <<>>
Some(t) == <<t>>
IsNil(p) == p = <<>>
Val(p) == p[1]

Min(S) == CHOOSE x \in S : \A y \in S : x <= y
Max(S) == CHOOSE x \in S : \A y \in S : y <= x

\* lo.Find: the index of the first element satisfying the predicate, given the
\* set of the indices of the elements that satisfy it; 0 when there is none.
FindIdx(hits) == IF hits = {} THEN 0 ELSE Min(hits)

\* strings.TrimSpace on the status names that occur in the inputs and the config.
TrimSpace(s) ==
    CASE s = "in progress " -> "in progress"
      [] s = " QA"          -> "QA"
      [] s = " BUG"         -> "BUG"
      [] s = "Bug "         -> "Bug"
      [] s = " "            -> ""
      [] OTHER              -> s

\* strings.ToLower on the same vocabulary.
ToLower(s) ==
    CASE s = "Backlog"      -> "backlog"
      [] s = "Ready"        -> "ready"
      [] s = "In Ready"     -> "in ready"
      [] s = "Ready for Dev" -> "ready for dev"
      [] s = "In Progress"  -> "in progress"
      [] s = "In progress"  -> "in progress"
      [] s = "In Review"    -> "in review"
      [] s = "In review"    -> "in review"
      [] s = "QA"           -> "qa"
      [] s = "Done"         -> "done"
      [] s = "DONE"         -> "done"
      [] s = "Archive"      -> "archive"
      [] s = "archive"      -> "archive"
      [] s = "Released"     -> "released"
      [] s = "BUG"          -> "bug"
      [] s = "Bug"          -> "bug"
      [] s = "Feature"      -> "feature"
      [] OTHER              -> s

\* strings.EqualFold(strings.TrimSpace(a), strings.TrimSpace(b))
equalFoldTrim(a, b) == ToLower(TrimSpace(a)) = ToLower(TrimSpace(b))

\* --------------------------------------------------------------- the inputs

\* key(org, repo, number) for the issues of one repository: the issue number.
IssueIds == {1, 2}

\* One config.Project of config.yml: the boards of the config share their column
\* names and differ in the exclude flag and the type list.
projectCfg(exclude, types) ==
    [Exclude |-> exclude,
     Types |-> types,
     LeadTimeColumns |-> <<"Backlog", "Ready">>,
     CycleTimeColumns |-> <<"In Progress">>,
     PutInReadyColumns |-> <<"Ready">>,
     DevStartColumns |-> <<"In Progress">>,
     ReviewStartColumns |-> <<"In Review">>,
     QAStartColumns |-> <<"QA">>,
     WaitingToProdStartCols |-> <<"Done">>,
     InProdStartColumns |-> <<"Released", "Archive">>]

\* config.yml: P1 takes every issue, P3 is excluded, P4 takes two issue types;
\* every other board id (P2) is unknown to the config.
projCfgByID ==
    [P1 |-> projectCfg(FALSE, <<>>),
     P3 |-> projectCfg(TRUE, <<>>),
     P4 |-> projectCfg(FALSE, <<"Feature", "Bug ">>)]

ProjectName(pid) ==
    CASE pid = "P1" -> "Delivery"
      [] pid = "P3" -> "Sandbox"
      [] pid = "P4" -> "Product"
      [] OTHER -> "Side board"

projectEventRow(pid, col, at, typ) ==
    [ProjectID |-> pid, ProjectName |-> ProjectName(pid), ToColumn |-> col,
     At |-> at, EventType |-> typ]

statusEventRow(typ, at) == [Type |-> typ, At |-> at]

VARIABLES
    issues,       \* issue.csv: issue id -> issueRow
    statusRows,   \* issue_status_event.csv: issue id -> its rows, in file order
    projRows,     \* issue_project_event.csv: issue id -> its rows, in file order
    calculated,   \* calculated_issue.csv (allIssues), <<>> before the first run
    stocks,       \* stocks.csv: project key -> agg
    stocksWeek,   \* stocks_week.csv: one entry per week of the axis
    throughput,   \* throughput_week.csv rows
    ranAt,        \* time.Now() of the last calculate run, Nil before it
    closedEnds,   \* EndDatetime of the closed issues handed to writeWeeklyThroughput
    timeline,     \* import: the timeline events fetched for the issue being imported
    reports,      \* import: the IssueReports built so far
    cycleTime,    \* cycle_time.csv rows
    client,       \* the GitHub client: one paginated listing call in progress
    resolver,     \* the legacy resolver: its two caches and the lookups issued
    importRun,    \* one run of the import over the selected repositories
    files         \* the files under data/ and the run that rewrites them

vars == <<issues, statusRows, projRows, calculated, stocks, stocksWeek,
          throughput, ranAt, closedEnds, timeline, reports, cycleTime,
          client, resolver, importRun, files>>

inputVars == <<issues, statusRows, projRows>>
outputVars == <<calculated, stocks, stocksWeek, throughput, cycleTime>>
importVars == <<timeline, reports>>
extVars == <<client, resolver, importRun, files>>


\* ------------------------------------------------- reading the input files

\* sort.Slice(v, func(i, j) bool { return v[i].At.Before(v[j].At) }).  For a
\* slice of at most 12 elements sort.Slice is an insertion sort: rows with equal
\* At keep the order they have in the file.
RECURSIVE SortByAt(_)
SortByAt(s) ==
    IF Len(s) <= 1 THEN s
    ELSE LET pre == SortByAt(SubSeq(s, 1, Len(s) - 1))
             e == s[Len(s)]
             k == Cardinality({j \in DOMAIN pre : ~(e.At < pre[j].At)})
         IN SubSeq(pre, 1, k) \o <<e>> \o SubSeq(pre, k + 1, Len(pre))

\* statusByID[id] and projByID[id] as readStatus and readProject build them from
\* the rows of a file.
readStatus(file) == SortByAt(file)
readProject(file) == SortByAt(file)

\* ------------------------------------------------------ stage-mapping rules

firstMoveTo(events, column) ==
    IF Len(events) = 0 THEN Nil
    ELSE LET col == ToLower(TrimSpace(column))
             Hit(e) == e.EventType = "moved" /\ ToLower(TrimSpace(e.ToColumn)) = col
             k == FindIdx({n \in DOMAIN events : Hit(events[n])})
         IN IF k = 0 THEN Nil ELSE Some(events[k].At)

\* A variant of firstMoveToAny that does not look at the event type.
firstMoveToAny_anyType(events, columns) ==
    IF Len(events) = 0 THEN Nil
    ELSE LET set == {ToLower(TrimSpace(columns[c])) : c \in DOMAIN columns}
             Hit(e) == ToLower(TrimSpace(e.ToColumn)) \in set
             k == FindIdx({n \in DOMAIN events : Hit(events[n])})
         IN IF k = 0 THEN Nil ELSE Some(events[k].At)

firstMoveToAny(events, columns) ==
    IF Len(events) = 0 THEN Nil
    ELSE LET set == {ToLower(TrimSpace(columns[c])) : c \in DOMAIN columns}
             Hit(e) == e.EventType = "moved" /\ ToLower(TrimSpace(e.ToColumn)) \in set
             k == FindIdx({n \in DOMAIN events : Hit(events[n])})
         IN IF k = 0 THEN Nil ELSE Some(events[k].At)

\* A variant of firstClosed in which a trailing "reopened" cancels the closure.
firstClosed_unlessReopened(status) ==
    LET k == FindIdx({n \in DOMAIN status : status[n].Type = "closed"})
    IN IF k = 0 \/ status[Len(status)].Type = "reopened" THEN Nil
       ELSE Some(status[k].At)

\* The time of the first "closed" row of the sorted status history, or Nil.
firstClosed(status) ==
    LET IsClosed(s) == s.Type = "closed"
        k == FindIdx({n \in DOMAIN status : IsClosed(status[n])})
    IN IF k = 0 THEN Nil ELSE Some(status[k].At)

computeEnd(status, proj) ==
    LET closed == firstClosed(status)
        IsArchive(p) == p.EventType = "moved" /\ equalFoldTrim(p.ToColumn, "Archive")
        a == FindIdx({n \in DOMAIN proj : IsArchive(proj[n])})
        archived == IF a = 0 THEN Nil ELSE Some(proj[a].At)
    IN IF IsNil(closed) /\ IsNil(archived) THEN Nil
       ELSE IF IsNil(closed) THEN archived
       ELSE IF IsNil(archived) THEN closed
       ELSE IF Val(closed) < Val(archived) THEN closed
       ELSE archived

\* earliest non-nil time among the candidates, or Nil if none.
RECURSIVE earliestFrom(_, _)
earliestFrom(ts, res) ==
    IF ts = <<>> THEN res
    ELSE LET t == Head(ts) IN
         IF IsNil(t) THEN earliestFrom(Tail(ts), res)
         ELSE IF IsNil(res) \/ Val(t) < Val(res) THEN earliestFrom(Tail(ts), t)
         ELSE earliestFrom(Tail(ts), res)

\* A variant of earliest that keeps the first candidate instead of comparing.
earliest_firstCandidate(ts) == IF ts = <<>> THEN Nil ELSE Head(ts)

earliest(ts) == earliestFrom(ts, Nil)

\* The project of an issue: the one of its first project event after sorting.
issueProject(projEvents) ==
    IF Len(projEvents) > 0 THEN projEvents[1].ProjectID ELSE ""

issueProjectName(projEvents) ==
    IF Len(projEvents) > 0 THEN projEvents[1].ProjectName ELSE ""

\* A variant of skipped that ignores the type list of the board.
skipped_excludeOnly(is, projEvents) ==
    LET pid == issueProject(projEvents) IN
    /\ pid \in DOMAIN projCfgByID
    /\ projCfgByID[pid].Exclude

\* The config filters of Run: a configured board that is excluded, or whose type
\* list does not hold the issue's type, drops the issue.
skipped(is, projEvents) ==
    LET pid == issueProject(projEvents) IN
    /\ pid \in DOMAIN projCfgByID
    /\ LET pc == projCfgByID[pid] IN
       \/ pc.Exclude
       \/ /\ Len(pc.Types) > 0
          /\ \A t \in DOMAIN pc.Types : ~equalFoldTrim(pc.Types[t], is.Type)

\* The body of Run's loop over the issues for a configured board.
configuredRow(id, is, pc, projEvents, st) ==
    LET choose(cols) == IF Len(cols) > 0 THEN firstMoveToAny(projEvents, cols) ELSE Nil
        lead == choose(pc.LeadTimeColumns)
        cycle == choose(pc.CycleTimeColumns)
        dev == choose(pc.DevStartColumns)
        inprod == choose(pc.InProdStartColumns)
        closed == firstClosed(st)
        endCandidates == (IF IsNil(inprod) THEN <<>> ELSE <<inprod>>)
                         \o (IF IsNil(closed) THEN <<>> ELSE <<closed>>)
        end == earliest(endCandidates)
    IN [ID |-> id,
        ProjectID |-> issueProject(projEvents),
        ProjectName |-> issueProjectName(projEvents),
        CreationDatetime |-> is.CreatedAt,
        LeadTimeStartDatetime |-> lead,
        CycleTimeStartDatetime |-> IF ~IsNil(end) /\ IsNil(cycle) THEN lead ELSE cycle,
        PutInReadyStartDatetime |-> choose(pc.PutInReadyColumns),
        DevStartDatetime |-> IF ~IsNil(end) /\ IsNil(dev) THEN lead ELSE dev,
        ReviewStartDatetime |-> choose(pc.ReviewStartColumns),
        QAStartDatetime |-> choose(pc.QAStartColumns),
        WaitingToPodStartDatetime |-> choose(pc.WaitingToProdStartCols),
        EndDatetime |-> end,
        Bug |-> is.IsBug,
        Type |-> is.Type]

\* The legacy fallback of Run for a board the config does not know.
fallbackRow(id, is, projEvents, st) ==
    LET lead == firstMoveToAny(projEvents, <<"Backlog", "Ready">>)
        cycle == firstMoveToAny(projEvents, <<"In Progress", "In progress">>)
        dev == firstMoveToAny(projEvents, <<"In Progress", "In progress">>)
    IN [ID |-> id,
        ProjectID |-> issueProject(projEvents),
        ProjectName |-> issueProjectName(projEvents),
        CreationDatetime |-> is.CreatedAt,
        LeadTimeStartDatetime |-> lead,
        CycleTimeStartDatetime |->
            IF IsNil(cycle) THEN firstMoveToAny(projEvents, <<"Backlog", "Ready">>) ELSE cycle,
        PutInReadyStartDatetime |->
            firstMoveToAny(projEvents, <<"Ready", "In Ready", "Ready for Dev">>),
        DevStartDatetime |->
            IF IsNil(dev) THEN firstMoveToAny(projEvents, <<"Backlog", "Ready">>) ELSE dev,
        ReviewStartDatetime |-> firstMoveToAny(projEvents, <<"In review", "In Review">>),
        QAStartDatetime |-> Nil,
        WaitingToPodStartDatetime |-> firstMoveTo(projEvents, "Done"),
        EndDatetime |-> computeEnd(st, projEvents),
        Bug |-> is.IsBug,
        Type |-> is.Type]

\* One calculatedIssue of Run's loop, from the rows the two event files hold for
\* the issue (in file order).
computeIssue(id, is, projFile, statusFile) ==
    LET projEvents == readProject(projFile)
        st == readStatus(statusFile)
        pid == issueProject(projEvents)
    IN IF pid \in DOMAIN projCfgByID
       THEN configuredRow(id, is, projCfgByID[pid], projEvents, st)
       ELSE fallbackRow(id, is, projEvents, st)

\* allIssues after sort.Slice by ID: the rows of the issues that are not skipped.
RECURSIVE allIssuesUpTo(_)
allIssuesUpTo(n) ==
    IF n = 0 THEN <<>>
    ELSE allIssuesUpTo(n - 1)
         \o (IF n \in DOMAIN issues /\ ~skipped(issues[n], readProject(projRows[n]))
             THEN <<computeIssue(n, issues[n], projRows[n], statusRows[n])>>
             ELSE <<>>)

allIssues == allIssuesUpTo(Cardinality(IssueIds))

\* lo.Filter(allIssues, EndDatetime != nil) and lo.Filter(allIssues, EndDatetime == nil)
closedIssuesOf(rows) == SelectSeq(rows, LAMBDA ci : ~IsNil(ci.EndDatetime))
openIssuesOf(rows) == SelectSeq(rows, LAMBDA ci : IsNil(ci.EndDatetime))

\* ------------------------------------------------------------ week helpers

\* t.Weekday(): Sunday = 0, Monday = 1, ..., Saturday = 6 (day 0 is a Monday).
Weekday(t) == (t + 1) % WeekDays

\* alignToMonday: midnight of the Monday of t's week.
alignToMonday(t) == LET offset == (Weekday(t) + 6) % WeekDays IN t - offset

\* t.ISOWeek(), as the Monday the (year, week) pair names.
ISOWeek(t) == (t \div WeekDays) * WeekDays

\* Sunday end-of-day cutoff of the week starting at cur: Monday + 6 days, 23:59:59.
cutoffOf(cur) == cur + 6

\* for cur := start; !cur.After(end); cur = cur.AddDate(0, 0, 7)
weekAxis(start, end) ==
    IF end < start THEN <<>>
    ELSE [k \in 1..((end - start) \div WeekDays + 1) |-> start + (k - 1) * WeekDays]

\* The number of rows counted by a counter, given the indices of the rows that
\* satisfy its condition.
CountIf(hits) == Cardinality(hits)

\* ---------------------------------------------------- step 4: current stocks

flags(ob, ib, iready, idev, ir, iq, iw) ==
    [openedBug |-> ob, inBacklog |-> ib, inReady |-> iready, inDev |-> idev,
     inReview |-> ir, inQA |-> iq, waiting |-> iw]

noFlags == flags(FALSE, FALSE, FALSE, FALSE, FALSE, FALSE, FALSE)

\* A variant of stageFlags whose QA branch sets in_qa as well as in_review.
stageFlags_qaTwice(r) ==
    IF ~IsNil(r.EndDatetime) THEN noFlags
    ELSE IF ~IsNil(r.WaitingToPodStartDatetime)
         THEN flags(r.Bug, FALSE, FALSE, FALSE, FALSE, FALSE, TRUE)
    ELSE IF ~IsNil(r.QAStartDatetime)
         THEN flags(r.Bug, FALSE, FALSE, FALSE, TRUE, TRUE, FALSE)
    ELSE IF ~IsNil(r.ReviewStartDatetime)
         THEN flags(r.Bug, FALSE, FALSE, TRUE, FALSE, FALSE, FALSE)
    ELSE IF ~IsNil(r.DevStartDatetime)
         THEN flags(r.Bug, FALSE, FALSE, TRUE, FALSE, FALSE, FALSE)
    ELSE IF ~IsNil(r.PutInReadyStartDatetime)
         THEN flags(r.Bug, FALSE, TRUE, FALSE, FALSE, FALSE, FALSE)
    ELSE flags(r.Bug, TRUE, FALSE, FALSE, FALSE, FALSE, FALSE)

\* writeStocks.stageFlags: the seven results in the order of the signature
\* (openedBug, inBacklog, inReady, inDev, inReview, inQA, waiting).
stageFlags(r) ==
    IF ~IsNil(r.EndDatetime) THEN noFlags
    ELSE IF ~IsNil(r.WaitingToPodStartDatetime)
         THEN flags(r.Bug, FALSE, FALSE, FALSE, FALSE, FALSE, TRUE)
    ELSE IF ~IsNil(r.QAStartDatetime)
         THEN flags(r.Bug, FALSE, FALSE, FALSE, TRUE, FALSE, FALSE)
    ELSE IF ~IsNil(r.ReviewStartDatetime)
         THEN flags(r.Bug, FALSE, FALSE, TRUE, FALSE, FALSE, FALSE)
    ELSE IF ~IsNil(r.DevStartDatetime)
         THEN flags(r.Bug, FALSE, FALSE, TRUE, FALSE, FALSE, FALSE)
    ELSE IF ~IsNil(r.PutInReadyStartDatetime)
         THEN flags(r.Bug, FALSE, TRUE, FALSE, FALSE, FALSE, FALSE)
    ELSE flags(r.Bug, TRUE, FALSE, FALSE, FALSE, FALSE, FALSE)

\* key := r.ProjectID + "\u0000" + r.ProjectName
projKey(r) == <<r.ProjectID, r.ProjectName>>

\* The agg of one project key: each counter is the number of rows of that key
\* whose flag is set; F[n] holds the flags of rows[n].
aggOf(rows, key, F) ==
    [OpenedBugs    |-> CountIf({n \in DOMAIN rows : projKey(rows[n]) = key /\ F[n].openedBug}),
     InBacklogs    |-> CountIf({n \in DOMAIN rows : projKey(rows[n]) = key /\ F[n].inBacklog}),
     InReady       |-> CountIf({n \in DOMAIN rows : projKey(rows[n]) = key /\ F[n].inReady}),
     InDev         |-> CountIf({n \in DOMAIN rows : projKey(rows[n]) = key /\ F[n].inDev}),
     InReview      |-> CountIf({n \in DOMAIN rows : projKey(rows[n]) = key /\ F[n].inReview}),
     InQA          |-> CountIf({n \in DOMAIN rows : projKey(rows[n]) = key /\ F[n].inQA}),
     WaitingToProd |-> CountIf({n \in DOMAIN rows : projKey(rows[n]) = key /\ F[n].waiting})]

\* byProj of writeStocks: one record per project key of a not-closed row.
writeStocks(rows) ==
    LET keys == {projKey(rows[i]) : i \in {j \in DOMAIN rows : IsNil(rows[j].EndDatetime)}}
    IN [k \in keys |-> aggOf(rows, k, [n \in DOMAIN rows |-> stageFlags(rows[n])])]

\* ----------------------------------------------------- step 5: weekly stocks

\* writeWeeklyStocks.stageAt
stageAt(r, cutoff) ==
    LET le(t) == ~IsNil(t) /\ ~(Val(t) > cutoff) IN
    IF r.CreationDatetime > cutoff THEN noFlags
    ELSE IF ~IsNil(r.EndDatetime) /\ ~(Val(r.EndDatetime) > cutoff) THEN noFlags
    ELSE IF le(r.WaitingToPodStartDatetime)
         THEN flags(r.Bug, FALSE, FALSE, FALSE, FALSE, FALSE, TRUE)
    ELSE IF le(r.QAStartDatetime) /\ ~le(r.WaitingToPodStartDatetime)
         THEN flags(r.Bug, FALSE, FALSE, FALSE, TRUE, FALSE, FALSE)
    ELSE IF le(r.ReviewStartDatetime) /\ ~le(r.QAStartDatetime)
            /\ ~le(r.WaitingToPodStartDatetime)
         THEN flags(r.Bug, FALSE, FALSE, TRUE, FALSE, FALSE, FALSE)
    ELSE IF le(r.DevStartDatetime) /\ ~le(r.ReviewStartDatetime)
            /\ ~le(r.QAStartDatetime) /\ ~le(r.WaitingToPodStartDatetime)
         THEN flags(r.Bug, FALSE, FALSE, TRUE, FALSE, FALSE, FALSE)
    ELSE IF le(r.PutInReadyStartDatetime) /\ ~le(r.DevStartDatetime)
            /\ ~le(r.ReviewStartDatetime) /\ ~le(r.QAStartDatetime)
            /\ ~le(r.WaitingToPodStartDatetime)
         THEN flags(r.Bug, FALSE, TRUE, FALSE, FALSE, FALSE, FALSE)
    ELSE flags(r.Bug, TRUE, FALSE, FALSE, FALSE, FALSE, FALSE)

anyFlag(f) ==
    f.openedBug \/ f.inBacklog \/ f.inReady \/ f.inDev \/ f.inReview \/ f.inQA \/ f.waiting

\* The timestamps writeWeeklyStocks scans for the end of the axis.
cands(r) ==
    <<r.LeadTimeStartDatetime, r.CycleTimeStartDatetime, r.PutInReadyStartDatetime,
      r.DevStartDatetime, r.ReviewStartDatetime, r.QAStartDatetime,
      r.WaitingToPodStartDatetime, r.EndDatetime>>

\* maxT before the time.Now() default: Nil when no row has any of the timestamps.
weeklyMaxT(rows) ==
    LET ts == {Val(cands(rows[i])[c]) :
                 <<i, c>> \in {p \in (DOMAIN rows) \X (1..8) : ~IsNil(cands(rows[p[1]])[p[2]])}}
    IN IF ts = {} THEN Nil ELSE Some(Max(ts))

\* projMap of one week: one record per project key of a row with some flag set.
weekProjMap(rows, cutoff) ==
    LET at(r) == stageAt(r, cutoff)
        keys == {projKey(rows[i]) : i \in {j \in DOMAIN rows : anyFlag(at(rows[j]))}}
    IN [k \in keys |-> aggOf(rows, k, [n \in DOMAIN rows |-> at(rows[n])])]

\* byWeekProj of writeWeeklyStocks in week order; <<>> when there are no rows
\* (headers only).
writeWeeklyStocks(rows, now) ==
    IF Len(rows) = 0 THEN <<>>
    ELSE LET minT == Min({rows[i].CreationDatetime : i \in DOMAIN rows})
             m == weeklyMaxT(rows)
             maxT == IF IsNil(m) THEN now ELSE Val(m)
             axis == weekAxis(alignToMonday(minT), alignToMonday(maxT))
         IN [k \in DOMAIN axis |->
               [Week |-> ISOWeek(axis[k]), Rows |-> weekProjMap(rows, cutoffOf(axis[k]))]]

\* -------------------------------------------------- step 3: weekly throughput

\* float64 values are kept in fixed point, in units of 1/Scale.
Scale == 60 * 60

RECURSIVE isqrtIn(_, _, _)
isqrtIn(x, lo, hi) ==
    IF lo >= hi THEN lo
    ELSE LET mid == (lo + hi + 1) \div 2 IN
         IF mid * mid <= x THEN isqrtIn(x, mid, hi) ELSE isqrtIn(x, lo, mid - 1)

\* math.Sqrt of a fixed-point value, in fixed point (rounded down).
Sqrt(v) == LET x == v * Scale IN isqrtIn(x, 0, IF x > 46340 THEN 46340 ELSE x)

\* A variant of clamp0 that does not clamp.
clamp0_none(v) == v

clamp0(v) == IF v < 0 THEN 0 ELSE v

uclOf(mean) == mean + 3 * Sqrt(mean)
lclOf(mean) == clamp0(mean - 3 * Sqrt(mean))

\* counts[wk]: the number of rows that ended in the ISO week wk.
weekCount(rows, wk) ==
    CountIf({n \in DOMAIN rows : ~IsNil(rows[n].EndDatetime) /\ ISOWeek(Val(rows[n].EndDatetime)) = wk})

\* keys: the continuous list of ISO weeks between the first and the last end.
throughputKeys(rows) ==
    LET ends == {Val(rows[i].EndDatetime) : i \in {j \in DOMAIN rows : ~IsNil(rows[j].EndDatetime)}}
    IN IF ends = {} THEN <<>>
       ELSE LET axis == weekAxis(alignToMonday(Min(ends)), alignToMonday(Max(ends)))
            IN [k \in DOMAIN axis |-> ISOWeek(axis[k])]

\* Sum of counts[keys[j]] for j in from..to (0-based indices, as in the code).
RECURSIVE sumCounts(_, _, _, _)
sumCounts(rows, keys, from, to) ==
    IF from > to THEN 0
    ELSE weekCount(rows, keys[from + 1]) + sumCounts(rows, keys, from + 1, to)

\* A variant of blockLoop whose blocks start one week late (blockEnd - 4).
RECURSIVE blockLoop_lateStart(_, _, _, _)
blockLoop_lateStart(rows, keys, blockEnd, lim) ==
    IF ~(blockEnd < Len(keys)) THEN lim
    ELSE LET mean == (sumCounts(rows, keys, blockEnd - 5, blockEnd) * Scale) \div BlockWeeks
             ucl == uclOf(mean)
             lcl == lclOf(mean)
             block == {i \in (blockEnd - 4)..blockEnd : i < Len(keys)}
         IN blockLoop_lateStart(rows, keys, blockEnd + BlockWeeks,
               [ucls |-> [i \in DOMAIN lim.ucls |-> IF i \in block THEN ucl ELSE lim.ucls[i]],
                lcls |-> [i \in DOMAIN lim.lcls |-> IF i \in block THEN lcl ELSE lim.lcls[i]],
                lastAssigned |-> IF block = {} THEN lim.lastAssigned ELSE Max(block)])

\* The loop "for blockEnd := 5; blockEnd < len(keys); blockEnd += 6": lim holds
\* ucls, lcls (0-based arrays) and lastAssigned.
RECURSIVE blockLoop(_, _, _, _)
blockLoop(rows, keys, blockEnd, lim) ==
    IF ~(blockEnd < Len(keys)) THEN lim
    ELSE LET mean == (sumCounts(rows, keys, blockEnd - 5, blockEnd) * Scale) \div BlockWeeks
             ucl == uclOf(mean)
             lcl == lclOf(mean)
             blockStart == blockEnd - 5
             block == {i \in blockStart..blockEnd : i < Len(keys)}
         IN blockLoop(rows, keys, blockEnd + BlockWeeks,
               [ucls |-> [i \in DOMAIN lim.ucls |-> IF i \in block THEN ucl ELSE lim.ucls[i]],
                lcls |-> [i \in DOMAIN lim.lcls |-> IF i \in block THEN lcl ELSE lim.lcls[i]],
                lastAssigned |-> IF block = {} THEN lim.lastAssigned ELSE Max(block)])

\* ucls and lcls for every week of the axis (0-based), before the last week is cut.
controlLimits(rows, keys) ==
    LET n == Len(keys)
        zero == [i \in 0..(n - 1) |-> 0]
    IN IF n < BlockWeeks
       THEN LET mean == (sumCounts(rows, keys, 0, n - 1) * Scale) \div n
            IN [ucls |-> [i \in 0..(n - 1) |-> uclOf(mean)],
                lcls |-> [i \in 0..(n - 1) |-> lclOf(mean)]]
       ELSE LET lim == blockLoop(rows, keys, 5,
                                 [ucls |-> zero, lcls |-> zero, lastAssigned |-> -1])
                la == lim.lastAssigned
            IN [ucls |-> [i \in 0..(n - 1) |-> IF i > la THEN lim.ucls[la] ELSE lim.ucls[i]],
                lcls |-> [i \in 0..(n - 1) |-> IF i > la THEN lim.lcls[la] ELSE lim.lcls[i]]]

\* The rows of throughput_week.csv: center is overwritten with the week's count
\* and the last week of the axis is removed before writing.
writeWeeklyThroughput(rows) ==
    LET keys == throughputKeys(rows) IN
    IF Len(keys) = 0 THEN <<>>
    ELSE LET lim == controlLimits(rows, keys)
         IN [k \in 1..(Len(keys) - 1) |->
               [Week |-> keys[k],
                Count |-> weekCount(rows, keys[k]),
                Center |-> weekCount(rows, keys[k]) * Scale,
                UCL |-> lim.ucls[k - 1],
                LCL |-> lim.lcls[k - 1]]]

\* ------------------------------------------------- step 2: monthly summary

\* EndDatetime.UTC().Format("2006-01") as the month number of 2024; day 0 is
\* Monday 1 January 2024.
MonthOf(t) ==
    CASE t < 31 -> 1
      [] t < 60 -> 2
      [] t < 91 -> 3
      [] OTHER  -> 4

\* sum / float64(cnt) in fixed point, 0 when cnt is 0.
avgDays(sum, cnt) == IF cnt > 0 THEN (sum * Scale) \div cnt ELSE 0

\* The sum of f over the rows with the indices of hits.
RECURSIVE sumOver(_, _)
sumOver(f, hits) ==
    IF hits = {} THEN 0
    ELSE LET n == Min(hits) IN f[n] + sumOver(f, hits \ {n})

\* One outRow of writeMonthlyCycleSummary for the month m.
monthRow(rows, m) ==
    LET inMonth == {n \in DOMAIN rows : MonthOf(Val(rows[n].EndDatetime)) = m}
        withLead == {n \in inMonth : ~IsNil(rows[n].LeadTimeStartDatetime)}
        withCycle == {n \in inMonth : ~IsNil(rows[n].CycleTimeStartDatetime)}
        withTpr == {n \in inMonth :
                      /\ ~IsNil(rows[n].DevStartDatetime)
                      /\ ~IsNil(rows[n].ReviewStartDatetime)
                      /\ ~(Val(rows[n].ReviewStartDatetime) < Val(rows[n].DevStartDatetime))}
        lead == [n \in withLead |->
                   Val(rows[n].EndDatetime) - Val(rows[n].LeadTimeStartDatetime)]
        cycle == [n \in withCycle |->
                    Val(rows[n].EndDatetime) - Val(rows[n].CycleTimeStartDatetime)]
        tpr == [n \in withTpr |->
                  Val(rows[n].ReviewStartDatetime) - Val(rows[n].DevStartDatetime)]
    IN [Month |-> m,
        IssueCount |-> Cardinality(inMonth),
        LeadDaysAvg |-> avgDays(sumOver(lead, withLead), Cardinality(withLead)),
        LeadCount |-> Cardinality(withLead),
        CycleDaysAvg |-> avgDays(sumOver(cycle, withCycle), Cardinality(withCycle)),
        CycleCount |-> Cardinality(withCycle),
        TimeToPRAvg |-> avgDays(sumOver(tpr, withTpr), Cardinality(withTpr))]

\* The months of a set, in increasing order (sort.Strings).
RECURSIVE sortedMonths(_)
sortedMonths(ms) ==
    IF ms = {} THEN <<>> ELSE <<Min(ms)>> \o sortedMonths(ms \ {Min(ms)})

\* The rows of cycle_time.csv: one per month with a completed issue.
writeMonthlyCycleSummary(rows) ==
    LET closed == SelectSeq(rows, LAMBDA r : ~IsNil(r.EndDatetime))
        months == sortedMonths({MonthOf(Val(closed[n].EndDatetime)) : n \in DOMAIN closed})
    IN [k \in DOMAIN months |-> monthRow(closed, months[k])]

\* ----------------------------------- the components a calculate run leaves alone

\* No listing call in progress.
idleClient ==
    [pc |-> "idle", kind |-> "", since |-> Nil, pages |-> <<>>, after |-> 0,
     all |-> <<>>, now |-> 0, cancelled |-> FALSE, resp |-> Nil, result |-> "none",
     requests |-> <<>>, quotaReset |-> Nil, lastRetry |-> Nil,
     sleptAfterCancel |-> FALSE]

\* newResolver: both caches empty, before the first timeline event of an issue;
\* requests and answers record the lookups issued and the results returned.
newResolver ==
    [colCache |-> <<>>, prjCache |-> <<>>,
     projHist |-> <<>>, currentByProject |-> <<>>, events |-> 0,
     requests |-> <<>>, answers |-> <<>>]

\* No import run in progress: cmdimport.Run's locals before the flags are parsed.
\* failed and listed are ghost sets of <<scope, repository>> pairs: the listings
\* that returned an error, and the listings that were issued.
idleImportRun ==
    [pc |-> "idle", repoFilter |-> {}, issuesScope |-> FALSE, prScope |-> FALSE,
     reposOk |-> FALSE, repos |-> <<>>, next |-> 1,
     reports |-> <<>>, allPRs |-> <<>>, allReviews |-> <<>>,
     issueCSV |-> <<>>, issueCSVWritten |-> FALSE,
     prCSV |-> <<>>, prCSVWritten |-> FALSE,
     rvCSV |-> <<>>, rvCSVWritten |-> FALSE,
     failed |-> {}, listed |-> {}, result |-> "none"]

\* The files Run of calculate rewrites with the issues scope, in the order it
\* writes them.
CalculateOutputs ==
    <<"calculated_issue.csv", "cycle_time.csv", "throughput_week.csv",
      "stocks.csv", "stocks_week.csv">>

\* The files WriteAllCSVs of the import rewrites, in the order it writes them.
ImportOutputs ==
    <<"repository.csv", "project.csv", "issue.csv",
      "issue_status_event.csv", "issue_project_event.csv">>

outputsOf(kind) == IF kind = "calculate" THEN CalculateOutputs ELSE ImportOutputs

DataFiles == {ImportOutputs[i] : i \in DOMAIN ImportOutputs}
               \cup {CalculateOutputs[i] : i \in DOMAIN CalculateOutputs}

\* The files under data/ before any run: the complete output of an earlier
\* import and calculate over generation 0 of the remote data.  content maps a
\* file to the generation of the data it was written from and whether all its
\* rows were written; before is the content when the current run started.
initialFiles ==
    [pc |-> "idle", kind |-> "none", data |-> 0, k |-> 1, runs |-> 0,
     failed |-> FALSE,
     content |-> [f \in DataFiles |-> [data |-> 0, complete |-> TRUE]],
     before |-> [f \in DataFiles |-> [data |-> 0, complete |-> TRUE]]]

\* ------------------------------------------------------------------ actions

\* The import writes one issue: its issue.csv row and the seeded "opened" row.
ImportIssue(id, created, bug) ==
    /\ IsNil(ranAt)
    /\ id \notin DOMAIN issues
    /\ issues' = issues @@ (id :> [CreatedAt |-> created, IsBug |-> bug, Type |-> ""])
    /\ statusRows' = statusRows @@ (id :> <<statusEventRow("opened", created)>>)
    /\ projRows' = projRows @@ (id :> <<>>)
    /\ UNCHANGED <<outputVars, ranAt, closedEnds, importVars, extVars>>

\* The import writes one more status row of an issue (a timeline event, in the
\* order the API delivered it).
AppendStatus(id, typ, at, limit) ==
    /\ IsNil(ranAt)
    /\ id \in DOMAIN issues
    /\ Len(statusRows[id]) - 1 < limit
    /\ at >= issues[id].CreatedAt
    /\ statusRows' = [statusRows EXCEPT ![id] = Append(@, statusEventRow(typ, at))]
    /\ UNCHANGED <<issues, projRows, outputVars, ranAt, closedEnds, importVars, extVars>>

\* The import writes one more project event row of an issue.
AppendProject(id, pid, col, at, typ, limit) ==
    /\ IsNil(ranAt)
    /\ id \in DOMAIN issues
    /\ Len(projRows[id]) < limit
    /\ at >= issues[id].CreatedAt
    /\ projRows' = [projRows EXCEPT ![id] = Append(@, projectEventRow(pid, col, at, typ))]
    /\ UNCHANGED <<issues, statusRows, outputVars, ranAt, closedEnds, importVars, extVars>>

\* calculate.Run with the issues scope: reads the three files and rewrites the
\* output files.
Calculate(now) ==
    /\ IsNil(ranAt)
    /\ ranAt' = Some(now)
    /\ calculated' = allIssues
    /\ cycleTime' = writeMonthlyCycleSummary(closedIssuesOf(allIssues))
    /\ throughput' = writeWeeklyThroughput(closedIssuesOf(allIssues))
    /\ stocks' = writeStocks(openIssuesOf(allIssues))
    /\ stocksWeek' = writeWeeklyStocks(openIssuesOf(allIssues), now)
    /\ closedEnds' = [i \in DOMAIN closedIssuesOf(allIssues) |->
                        Val(closedIssuesOf(allIssues)[i].EndDatetime)]
    /\ UNCHANGED <<inputVars, importVars, extVars>>

\* The status names the board events of the inputs carry.
EventCols == {"Ready", "in progress ", "In Review", "QA", "DONE", "Archive"}

\* time.Now() of the run: a week after the last input timestamp.
RunTime == Horizon + WeekDays

Init ==
    /\ issues = (1 :> [CreatedAt |-> 0, IsBug |-> TRUE, Type |-> ""])
    /\ statusRows = (1 :> <<statusEventRow("opened", 0)>>)
    /\ projRows = (1 :> <<>>)
    /\ calculated = <<>>
    /\ stocks = <<>>
    /\ stocksWeek = <<>>
    /\ throughput = <<>>
    /\ ranAt = Nil
    /\ closedEnds = <<>>
    /\ timeline = <<>>
    /\ reports = <<>>
    /\ cycleTime = <<>>
    /\ client = idleClient
    /\ resolver = newResolver
    /\ importRun = idleImportRun
    /\ files = initialFiles

\* Two issues on the configured board: moves only, the second issue with a
\* shorter history and possibly closed.
Next ==
    \/ \E c \in Times : ImportIssue(2, c, FALSE)
    \/ \E col \in EventCols, at \in Times :
          AppendProject(1, "P1", col, at, "moved", MaxProjRows)
    \/ \E col \in EventCols, at \in Times :
          AppendProject(2, "P1", col, at, "moved", MaxProjRows - 1)
    \/ \E at \in Times : AppendStatus(2, "closed", at, MaxStatusRows - 1)
    \/ Calculate(RunTime)

Spec == Init /\ [][Next]_vars

\* One issue with the full variety of board events (two boards, added and
\* removed events) and of status events.
NextMap ==
    \/ \E pid \in {"P1", "P2"}, col \in EventCols, at \in Times :
          AppendProject(1, pid, col, at, "moved", MaxProjRows)
    \/ \E pid \in {"P1", "P2"}, at \in Times :
          AppendProject(1, pid, "In Progress", at, "added", MaxProjRows)
    \/ \E pid \in {"P1", "P2"}, at \in Times :
          AppendProject(1, pid, "", at, "removed", MaxProjRows)
    \/ \E typ \in {"closed", "reopened"}, at \in Times :
          AppendStatus(1, typ, at, MaxStatusRows)
    \/ Calculate(RunTime)

SpecMap == Init /\ [][NextMap]_vars

\* A row of issue.csv that carries the optional type column, with the seeded
\* "opened" row of the issue.
IssueRowWithType(id, created, typ) ==
    /\ IsNil(ranAt)
    /\ id \notin DOMAIN issues
    /\ issues' = issues @@ (id :> [CreatedAt |-> created, IsBug |-> FALSE, Type |-> typ])
    /\ statusRows' = statusRows @@ (id :> <<statusEventRow("opened", created)>>)
    /\ projRows' = projRows @@ (id :> <<>>)
    /\ UNCHANGED <<outputVars, ranAt, closedEnds, importVars, extVars>>

\* The boards of the inputs of the exclusion runs: plain, excluded, typed.
ConfiguredBoards == {"P1", "P3", "P4"}

\* Two issues on the three configured boards: the first without a type, the
\* second with a type the typed board lists (in another case) or does not list.
NextExclude ==
    \/ \E c \in Times, typ \in {" BUG", "chore"} : IssueRowWithType(2, c, typ)
    \/ \E pid \in ConfiguredBoards, col \in {"Ready", "Archive"}, at \in Times :
          AppendProject(1, pid, col, at, "moved", MaxProjRows)
    \/ \E pid \in ConfiguredBoards, col \in {"Ready", "Archive"}, at \in Times :
          AppendProject(2, pid, col, at, "moved", MaxProjRows - 1)
    \/ \E at \in Times : AppendStatus(2, "closed", at, MaxStatusRows - 1)
    \/ Calculate(RunTime)

SpecExclude == Init /\ [][NextExclude]_vars

\* Two issues with closed and reopened events in any order, the first also moved
\* on the configured board.
NextSticky ==
    \/ \E c \in Times : ImportIssue(2, c, FALSE)
    \/ \E id \in IssueIds, typ \in {"closed", "reopened"}, at \in Times :
          AppendStatus(id, typ, at, MaxStatusRows)
    \/ \E col \in {"Ready", "Archive"}, at \in Times :
          AppendProject(1, "P1", col, at, "moved", MaxProjRows - 1)
    \/ Calculate(RunTime)

SpecSticky == Init /\ [][NextSticky]_vars

\* -------- writeWeeklyThroughput on its own: any list of completion times

EndTimes == {k * EndStepDays : k \in 0..MaxEndTick}

\* The rows writeWeeklyThroughput reads: only EndDatetime is used.
endRows == [i \in DOMAIN closedEnds |-> [EndDatetime |-> Some(closedEnds[i])]]

\* One more closed issue in closedIssues.
AppendClosed(e) ==
    /\ IsNil(ranAt)
    /\ Len(closedEnds) < MaxClosed
    /\ closedEnds' = Append(closedEnds, e)
    /\ UNCHANGED <<inputVars, outputVars, ranAt, importVars, extVars>>

\* The times a run of step 3 can take place at: the day of the latest completion
\* (its week still in progress) or a week after the last possible completion.
ThroughputRunTimes ==
    {MaxEndTick * EndStepDays + WeekDays}
    \cup (IF closedEnds = <<>> THEN {}
          ELSE {Max({closedEnds[i] : i \in DOMAIN closedEnds})})

\* Step 3 of Run, at the time now; writeWeeklyThroughput does not read the clock.
WriteWeeklyThroughput(now) ==
    /\ IsNil(ranAt)
    /\ ranAt' = Some(now)
    /\ throughput' = writeWeeklyThroughput(endRows)
    /\ UNCHANGED <<inputVars, calculated, stocks, stocksWeek, cycleTime, closedEnds,
                   importVars, extVars>>

NextThroughput ==
    \/ \E e \in EndTimes : AppendClosed(e)
    \/ \E now \in ThroughputRunTimes : WriteWeeklyThroughput(now)

SpecThroughput == Init /\ [][NextThroughput]_vars

\* ------------------------------------------------ the import (cmdimport.Run)

\* Timeline events per imported issue, and issues imported in one run.
MaxTimeline == 2
MaxReports == 2

\* One event of an issue's timeline as the API delivers it; proj is "" when the
\* event names no project.
timelineEvent(ev, at, proj, col) ==
    [Event |-> ev, CreatedAt |-> at, ProjectID |-> proj,
     ProjectName |-> IF proj = "" THEN "" ELSE ProjectName(proj),
     ProjectColumnName |-> col]

ProjectMoveEvent(ev, to, typ) ==
    [ProjectID |-> ev.ProjectID, ProjectName |-> ev.ProjectName, ToColumn |-> to,
     At |-> ev.CreatedAt, Type |-> typ]

\* One turn of the loop over the timeline events: acc holds statusHist, projHist
\* and currentByProject.
aggregateEvent(acc, ev) ==
    CASE ev.Event = "closed" ->
           [acc EXCEPT !.statusHist = Append(@, statusEventRow("closed", ev.CreatedAt))]
      [] ev.Event = "reopened" ->
           [acc EXCEPT !.statusHist = Append(@, statusEventRow("reopened", ev.CreatedAt))]
      [] ev.Event = "added_to_project_v2" /\ ev.ProjectID # "" ->
           [acc EXCEPT
              !.projHist = Append(@, ProjectMoveEvent(ev, "", "added")),
              !.currentByProject =
                  (ev.ProjectID :> [present |-> TRUE, projectName |-> ev.ProjectName,
                                    columnName |-> ""]) @@ @]
      [] ev.Event = "project_v2_item_status_changed" /\ ev.ProjectID # "" ->
           [acc EXCEPT
              !.projHist = Append(@, ProjectMoveEvent(ev, ev.ProjectColumnName, "moved")),
              !.currentByProject =
                  (ev.ProjectID :> [present |-> TRUE, projectName |-> ev.ProjectName,
                                    columnName |-> ev.ProjectColumnName]) @@ @]
      [] ev.Event = "removed_from_project_v2" /\ ev.ProjectID # "" ->
           [acc EXCEPT
              !.projHist = Append(@, ProjectMoveEvent(ev, "", "removed")),
              !.currentByProject =
                  (ev.ProjectID :>
                     IF ev.ProjectID \in DOMAIN @
                     THEN [@[ev.ProjectID] EXCEPT !.present = FALSE]
                     ELSE [present |-> FALSE, projectName |-> ev.ProjectName,
                           columnName |-> ""]) @@ @]
      [] OTHER -> acc

RECURSIVE aggregateTimeline(_, _)
aggregateTimeline(evts, acc) ==
    IF evts = <<>> THEN acc
    ELSE aggregateTimeline(Tail(evts), aggregateEvent(acc, Head(evts)))

\* The IssueReport of an issue whose timeline was fetched: the status history is
\* seeded with "opened" at the creation time, then the events are folded in.
reportOf(number, created, evts) ==
    LET acc == aggregateTimeline(evts,
                 [statusHist |-> <<statusEventRow("opened", created)>>,
                  projHist |-> <<>>,
                  currentByProject |-> <<>>])
        cur == acc.currentByProject
    IN [Number |-> number,
        CreatedAt |-> created,
        StatusHistory |-> acc.statusHist,
        ProjectHistory |-> acc.projHist,
        CurrentProjects |->
            {[ProjectID |-> pid, ProjectName |-> cur[pid].projectName,
              ColumnName |-> cur[pid].columnName] :
               pid \in {q \in DOMAIN cur : cur[q].present}}]

\* The IssueReport of an issue whose timeline fetch failed: the histories are
\* never assigned.
reportWithoutTimeline(number, created) ==
    [Number |-> number, CreatedAt |-> created, StatusHistory |-> <<>>,
     ProjectHistory |-> <<>>, CurrentProjects |-> {}]

\* ListAllTimeline delivers one more event of the issue being imported.
FetchTimelineEvent(ev) ==
    /\ Len(reports) < MaxReports
    /\ Len(timeline) < MaxTimeline
    /\ timeline' = Append(timeline, ev)
    /\ UNCHANGED <<inputVars, outputVars, ranAt, closedEnds, reports, extVars>>

\* The loop body of Run for an issue whose timeline was fetched.
ImportWithTimeline(created) ==
    /\ Len(reports) < MaxReports
    /\ \A k \in DOMAIN timeline : timeline[k].CreatedAt >= created
    /\ reports' = Append(reports, reportOf(Len(reports) + 1, created, timeline))
    /\ timeline' = <<>>
    /\ UNCHANGED <<inputVars, outputVars, ranAt, closedEnds, extVars>>

\* The loop body of Run for an issue whose ListAllTimeline returned an error.
ImportTimelineFailed(created) ==
    /\ Len(reports) < MaxReports
    /\ timeline = <<>>
    /\ reports' = Append(reports, reportWithoutTimeline(Len(reports) + 1, created))
    /\ timeline' = <<>>
    /\ UNCHANGED <<inputVars, outputVars, ranAt, closedEnds, extVars>>

\* The timeline events the API can deliver.
TimelineEvents ==
    {timelineEvent(ev, at, "", "") : ev \in {"closed", "reopened"}, at \in Times}
    \cup {timelineEvent(ev, at, "P1", "") :
            ev \in {"added_to_project_v2", "removed_from_project_v2"}, at \in Times}
    \cup {timelineEvent("project_v2_item_status_changed", at, proj, "In Progress") :
            proj \in {"", "P1"}, at \in Times}

\* strings.Contains on the lowercased label names the API delivers.
Contains(s, sub) ==
    <<s, sub>> \in {<<"bug", "bug">>, <<"feature", "feature">>, <<"chore", "chore">>,
                    <<"docs", "doc">>}

\* One turn of the loop over the labels, entered when no structured type is
\* known: acc holds typ and report.IsBug.
labelStep(acc, l) ==
    LET name == ToLower(TrimSpace(l)) IN
    IF name = "bug"
    THEN [IsBug |-> TRUE, typ |-> IF acc.typ = "" THEN "bug" ELSE acc.typ]
    ELSE IF acc.typ # "" THEN acc
    ELSE IF Contains(name, "feature") THEN [acc EXCEPT !.typ = "feature"]
    ELSE IF Contains(name, "chore") \/ Contains(name, "refactor")
         THEN [acc EXCEPT !.typ = "chore"]
    ELSE IF Contains(name, "doc") THEN [acc EXCEPT !.typ = "docs"]
    ELSE acc

RECURSIVE labelLoop(_, _)
labelLoop(labels, acc) ==
    IF labels = <<>> THEN acc ELSE labelLoop(Tail(labels), labelStep(acc, Head(labels)))

\* report.Type and report.IsBug of an issue: the structured type when the API
\* gives one, else the labels, else "task".
typeAndBug(isType, labels) ==
    LET given == IF TrimSpace(isType) # "" THEN ToLower(TrimSpace(isType)) ELSE ""
        acc == IF given = "" THEN labelLoop(labels, [IsBug |-> FALSE, typ |-> ""])
               ELSE [IsBug |-> FALSE, typ |-> given]
        typ == IF acc.typ = "" THEN "task" ELSE acc.typ
    IN [Type |-> typ, IsBug |-> acc.IsBug \/ ToLower(typ) = "bug"]

\* The loop body of Run for an issue with an empty timeline: the report with
\* its type and its defect flag.  IssueType and Labels keep what the API
\* delivered for the issue.
ImportClassified(isType, labels) ==
    /\ Len(reports) < MaxReports
    /\ timeline = <<>>
    /\ reports' = Append(reports,
                     [IssueType |-> isType, Labels |-> labels]
                       @@ typeAndBug(isType, labels)
                       @@ reportOf(Len(reports) + 1, 0, <<>>))
    /\ UNCHANGED <<inputVars, outputVars, ranAt, closedEnds, timeline, extVars>>

\* The structured types and the label lists the API delivers.
IssueTypes == {"", " ", "Bug", "Feature"}
LabelNames == {"bug", "Bug", "feature", "docs"}
LabelLists == {<<>>} \cup {<<a>> : a \in LabelNames}
                \cup {<<a, b>> : a \in LabelNames, b \in LabelNames}

NextClassify ==
    \E isType \in IssueTypes, labels \in LabelLists : ImportClassified(isType, labels)

SpecClassify == Init /\ [][NextClassify]_vars

NextImport ==
    \/ \E ev \in TimelineEvents : FetchTimelineEvent(ev)
    \/ \E c \in Times : ImportWithTimeline(c)
    \/ \E c \in Times : ImportTimelineFailed(c)

SpecImport == Init /\ [][NextImport]_vars

\* ------------------------------- the GitHub client: quota, paging, cancellation

\* Times of the client are in milliseconds.
rateSafetyMargin == 2000
hourCap == 3600000
expiredResetWait == 5000
pacingCap == 2000
lowBudget == 100

\* Bounds of the listing calls: pages served, requests issued, clock ticks.
MaxPages == 2
MaxRequests == 4
TickMs == 2500
MaxClock == 5000

\* strconv.ParseInt / strconv.Atoi on the header values the API sends.
parseInt(s) ==
    CASE s = "0"    -> Some(0)
      [] s = "3"    -> Some(3)
      [] s = "9"    -> Some(9)
      [] s = "50"   -> Some(50)
      [] s = "5000" -> Some(5000)
      [] OTHER      -> Nil

\* time.Unix(sec, 0) on the client's clock.
Unix(sec) == sec * 1000

\* strings.Contains(strings.ToLower(m), "rate limit")
rateLimitHint(m) ==
    m \in {"API rate limit exceeded", "You have exceeded a secondary rate limit"}

\* A response of the API: status, the two X-RateLimit headers and, for a 200,
\* what the body holds.
response(status, remaining, reset, body) ==
    [status |-> status, remaining |-> remaining, reset |-> reset, body |-> body]

\* The records of a page: the k-th record of page p has id <<p, k>> and the
\* creation time its shape gives.
pageOf(p, shape) == [k \in DOMAIN shape |-> [ID |-> <<p, k>>, CreatedAt |-> shape[k]]]

\* The page the API serves for a cursor: its nodes and its pageInfo. The cursor
\* returned with page p is p; the last page has no next page.
serverPage(pages, after) ==
    [nodes |-> pages[after + 1],
     hasNextPage |-> after + 1 < Len(pages),
     endCursor |-> IF after + 1 < Len(pages) THEN Some(after + 1) ELSE Nil]

\* time.Sleep(d), started at the client's clock.
sleep(c, d) ==
    [c EXCEPT !.now = @ + d, !.sleptAfterCancel = @ \/ c.cancelled]

\* A variant of return that goes back to the top of do's loop.
return_retry(c, result) == [c EXCEPT !.pc = "do"]

\* The call returns to its caller.
return(c, result) == [c EXCEPT !.pc = "done", !.result = result]

\* A variant of quotaWait without the safety margin.
quotaWait_noMargin(now, sec) == Unix(sec) - now

\* time.Until(time.Unix(sec, 0)) + rateSafetyMargin
quotaWait(now, sec) == Unix(sec) - now + rateSafetyMargin

\* The pacing of do after a 2xx response: sleeps when the budget is empty or low.
pacing(c, jitter) ==
    LET r == Val(c.resp)
        rem == parseInt(r.remaining)
        sec == parseInt(r.reset)
    IN IF r.remaining = "" \/ r.reset = "" \/ IsNil(rem) \/ IsNil(sec) THEN c
       ELSE IF Val(rem) <= 0
            THEN LET d == quotaWait(c.now, Val(sec)) IN IF d > 0 THEN sleep(c, d) ELSE c
       ELSE IF Val(rem) < lowBudget
            THEN LET window == Unix(Val(sec)) - c.now
                     perReq == window \div (Val(rem) + 1)
                     d == (IF perReq > pacingCap THEN pacingCap ELSE perReq) + jitter
                 IN IF window > 0 /\ d > 0 THEN sleep(c, d) ELSE c
       ELSE c

\* Client.do after hc.c.Do returned a response.
doResponse(c, jitter) ==
    LET r == Val(c.resp)
        sec == parseInt(r.reset)
    IN IF r.status = 403 /\ r.remaining = "0"
       THEN IF r.reset # "" /\ ~IsNil(sec)
            THEN LET wait == quotaWait(c.now, Val(sec))
                     slept == IF wait > 0 THEN sleep(c, wait) ELSE c
                 IN [slept EXCEPT !.pc = "do",
                                  !.quotaReset = Some([reset |-> Unix(Val(sec)),
                                                       seenAt |-> c.now])]
            ELSE return(c, "rateLimited")
       ELSE IF r.status >= 200 /\ r.status < 300
            THEN [pacing(c, jitter) EXCEPT !.pc = "decode"]
       ELSE return(c, "statusError")

\* sleepUntilResetIfRateLimited: the wait it sleeps for, Nil when the messages
\* carry no rate-limit hint (it returns false without sleeping).
sleepUntilResetIfRateLimited(c, messages) ==
    LET r == Val(c.resp)
        sec == parseInt(r.reset)
        until == quotaWait(c.now, Val(sec))
    IN IF ~\E m \in DOMAIN messages : rateLimitHint(messages[m]) THEN Nil
       ELSE IF r.reset # "" /\ ~IsNil(sec)
            THEN IF until <= 0 THEN Some(expiredResetWait)
                 ELSE IF until < hourCap THEN Some(until)
                 ELSE Some(hourCap)
       ELSE Some(hourCap)

\* The error messages of a GraphQL body.
errorsOf(body) ==
    CASE body = "rateLimit"    -> <<"API rate limit exceeded">>
      [] body = "graphqlError" -> <<"Something went wrong while executing your query">>
      [] OTHER                 -> <<>>

\* The client-side filter of ListAllPullRequests: created at or after since.
keepRecord(kind, since, rec) ==
    ~(kind = "prs" /\ ~IsNil(since) /\ rec.CreatedAt < Val(since))

\* A variant of endOfListing that stops after every page.
endOfListing_firstPage(pi) == TRUE

\* if !pi.HasNextPage || pi.EndCursor == nil { break }
endOfListing(pi) == ~pi.hasNextPage \/ IsNil(pi.endCursor)

\* The body of the ListAll loops after do returned a response: decode, handle
\* the GraphQL errors, append the nodes, follow the cursor.
listPage(c) ==
    LET r == Val(c.resp)
        wait == sleepUntilResetIfRateLimited(c, errorsOf(r.body))
        pi == serverPage(c.pages, c.after)
    IN IF r.body = "garbage" THEN return(c, "decodeError")
       ELSE IF Len(errorsOf(r.body)) > 0
            THEN IF ~IsNil(wait)
                 THEN [sleep(c, Val(wait)) EXCEPT !.pc = "newRequest"]
                 ELSE return(c, "graphqlError")
       ELSE LET added == [c EXCEPT !.all =
                            @ \o SelectSeq(pi.nodes, LAMBDA n : keepRecord(c.kind, c.since, n))]
            IN IF endOfListing(pi) THEN return(added, "ok")
               ELSE [added EXCEPT !.after = Val(pi.endCursor), !.pc = "newRequest"]

\* The responses the API can send.
Headers == {<<"", "">>, <<"0", "">>, <<"0", "tomorrow">>, <<"0", "3">>,
            <<"50", "3">>, <<"5000", "9">>}

Responses ==
    {response(403, h[1], h[2], "") : h \in Headers}
    \cup {response(500, "", "", "")}
    \cup {response(200, h[1], h[2], b) :
            h \in Headers, b \in {"page", "rateLimit", "graphqlError", "garbage"}}

\* The page sequences the API can hold: records created before (0) or after (2)
\* the since date (1).
PageShapes == {<<>>, <<0, 2>>}
PageSeqs ==
    UNION {[1..n -> PageShapes] : n \in 1..MaxPages}

\* A caller starts ListAllIssues, ListAllTimeline, ListAllRepos or
\* ListAllPullRequests (the latter with or without a since date).
StartListing(kind, since, shapes) ==
    /\ client.pc = "idle"
    /\ kind = "prs" \/ IsNil(since)
    /\ client' = [idleClient EXCEPT
                     !.pc = "newRequest", !.kind = kind, !.since = since,
                     !.pages = [p \in DOMAIN shapes |-> pageOf(p, shapes[p])]]
    /\ UNCHANGED <<inputVars, outputVars, ranAt, closedEnds, importVars,
                   resolver, importRun, files>>

\* The top of the loop: http.NewRequestWithContext with the current cursor.
NewRequest ==
    /\ client.pc = "newRequest"
    /\ client' = [client EXCEPT !.pc = "do"]
    /\ UNCHANGED <<inputVars, outputVars, ranAt, closedEnds, importVars,
                   resolver, importRun, files>>

\* hc.c.Do(req) fails: the context is done (nothing is sent) or the transport
\* reports an error.
DoFails ==
    /\ client.pc = "do"
    /\ client' = return([client EXCEPT !.quotaReset = Nil],
                         IF client.cancelled THEN "cancelled" ELSE "transportError")
    /\ UNCHANGED <<inputVars, outputVars, ranAt, closedEnds, importVars,
                   resolver, importRun, files>>

\* hc.c.Do(req) sends the request and the API answers.
DoResponds(r) ==
    /\ client.pc = "do"
    /\ ~client.cancelled
    /\ Len(client.requests) < MaxRequests
    /\ client' = [client EXCEPT
                     !.pc = "response",
                     !.resp = Some(r),
                     !.quotaReset = Nil,
                     !.requests = Append(@, client.after),
                     !.lastRetry =
                        IF IsNil(client.quotaReset) THEN @
                        ELSE Some([reset |-> Val(client.quotaReset).reset,
                                   seenAt |-> Val(client.quotaReset).seenAt,
                                   at |-> client.now,
                                   after |-> client.after,
                                   previous |-> client.requests[Len(client.requests)]])]
    /\ UNCHANGED <<inputVars, outputVars, ranAt, closedEnds, importVars,
                   resolver, importRun, files>>

\* The rest of Client.do for the response received.
HandleResponse(jitter) ==
    /\ client.pc = "response"
    /\ client' = doResponse(client, jitter)
    /\ UNCHANGED <<inputVars, outputVars, ranAt, closedEnds, importVars,
                   resolver, importRun, files>>

\* The listing function reads the body of the response do returned; with the
\* context done the read can fail.
ListPage(readable) ==
    /\ client.pc = "decode"
    /\ readable \/ client.cancelled
    /\ client' = IF readable THEN listPage(client) ELSE return(client, "cancelled")
    /\ UNCHANGED <<inputVars, outputVars, ranAt, closedEnds, importVars,
                   resolver, importRun, files>>

\* The caller's context is cancelled or its deadline passes.
Cancel ==
    /\ client.pc \notin {"idle", "done"}
    /\ ~client.cancelled
    /\ client' = [client EXCEPT !.cancelled = TRUE]
    /\ UNCHANGED <<inputVars, outputVars, ranAt, closedEnds, importVars,
                   resolver, importRun, files>>

\* Time passes while a request is on its way and its response comes back.
Tick ==
    /\ client.pc = "response"
    /\ client.now < MaxClock
    /\ client' = [client EXCEPT !.now = @ + TickMs]
    /\ UNCHANGED <<inputVars, outputVars, ranAt, closedEnds, importVars,
                   resolver, importRun, files>>

ListingKinds == {"issues", "timeline", "repos", "prs"}

NextClient ==
    \/ \E kind \in ListingKinds, since \in {Nil, Some(1)}, shapes \in PageSeqs :
          StartListing(kind, since, shapes)
    \/ NewRequest
    \/ DoFails
    \/ \E r \in Responses : DoResponds(r)
    \/ \E jitter \in {0, 9} : HandleResponse(jitter)
    \/ \E readable \in BOOLEAN : ListPage(readable)
    \/ Cancel
    \/ Tick

SpecClient == Init /\ [][NextClient]_vars

\* ------------------------------------ Client.do on its own: the request loop

\* A caller hands a request to do.
StartDo ==
    /\ client.pc = "idle"
    /\ client' = [idleClient EXCEPT !.pc = "do", !.kind = "do"]
    /\ UNCHANGED <<inputVars, outputVars, ranAt, closedEnds, importVars,
                   resolver, importRun, files>>

\* hc.c.Do(req) returns a response, any number of times: the log of the
\* requests keeps the first MaxRequests of them.
DoAnswers(r) ==
    /\ client.pc = "do"
    /\ client.kind = "do"
    /\ ~client.cancelled
    /\ client' = [client EXCEPT
                     !.pc = "response",
                     !.resp = Some(r),
                     !.quotaReset = Nil,
                     !.requests = IF Len(@) < MaxRequests THEN Append(@, client.after)
                                  ELSE @]
    /\ UNCHANGED <<inputVars, outputVars, ranAt, closedEnds, importVars,
                   resolver, importRun, files>>

\* A quota-exhaustion response that carries a parseable reset time: the one
\* answer do retries on.
retriedResponse(r) ==
    r.status = 403 /\ r.remaining = "0" /\ r.reset # "" /\ ~IsNil(parseInt(r.reset))

\* hc.c.Do(req) ends with anything but the answer do retries on: an error, or a
\* response of another kind.
DoEndsOtherwise ==
    \/ DoFails
    \/ \E r \in {q \in Responses : ~retriedResponse(q)} : DoAnswers(r)

NextDo ==
    \/ StartDo
    \/ \E r \in {q \in Responses : retriedResponse(q)} : DoAnswers(r)
    \/ DoEndsOtherwise
    \/ \E jitter \in {0, 9} : HandleResponse(jitter)
    \/ Cancel
    \/ Tick

\* Every sleep ends and do goes on with the response in hand; the server
\* eventually answers with something other than the answer do retries on.
DoFairness ==
    /\ WF_vars(\E jitter \in {0, 9} : HandleResponse(jitter))
    /\ SF_vars(DoEndsOtherwise)

SpecDo == Init /\ [][NextDo]_vars /\ DoFairness

\* ------------------------- the legacy import: resolver and board events

\* Board events handled per issue.
MaxBoardEvents == 3

\* What GET /projects/columns/{id} and GET /projects/{id} hold.
apiColumn(id) ==
    IF id = 11 THEN [Name |-> "Todo", ProjectID |-> 1]
    ELSE [Name |-> "Doing", ProjectID |-> 2]

apiProject(id) == IF id = 1 THEN [Name |-> "Alpha"] ELSE [Name |-> "Beta"]

\* ProjectColumn{} and Project{}
noColumn == [Name |-> "", ProjectID |-> 0]
noProject == [Name |-> ""]

\* One more request for key, and the result returned for key.
lookedUp(r, key, issued, result) ==
    [r EXCEPT
       !.requests = (key :> ((IF key \in DOMAIN @ THEN @[key] ELSE 0)
                              + (IF issued THEN 1 ELSE 0))) @@ @,
       !.answers = (key :> ((IF key \in DOMAIN @ THEN @[key] ELSE {}) \cup {result})) @@ @]

\* resolver.getColumn; outcome is what the request meets when one is issued.
getColumn(r, id, outcome) ==
    IF id \in DOMAIN r.colCache
    THEN [res |-> lookedUp(r, <<"column", id>>, FALSE, r.colCache[id]),
          col |-> r.colCache[id].col, ok |-> r.colCache[id].ok]
    ELSE LET e == IF outcome = "ok" THEN [col |-> apiColumn(id), ok |-> TRUE]
                  ELSE [col |-> noColumn, ok |-> FALSE]
             cached == IF outcome = "undecodable" THEN r
                       ELSE [r EXCEPT !.colCache = (id :> e) @@ @]
         IN [res |-> lookedUp(cached, <<"column", id>>, TRUE, e),
             col |-> e.col, ok |-> e.ok]

\* resolver.getProject
getProject(r, id, outcome) ==
    IF id \in DOMAIN r.prjCache
    THEN [res |-> lookedUp(r, <<"project", id>>, FALSE, r.prjCache[id]),
          proj |-> r.prjCache[id].proj, ok |-> r.prjCache[id].ok]
    ELSE LET e == IF outcome = "ok" THEN [proj |-> apiProject(id), ok |-> TRUE]
                  ELSE [proj |-> noProject, ok |-> FALSE]
             cached == IF outcome = "undecodable" THEN r
                       ELSE [r EXCEPT !.prjCache = (id :> e) @@ @]
         IN [res |-> lookedUp(cached, <<"project", id>>, TRUE, e),
             proj |-> e.proj, ok |-> e.ok]

firstNonEmpty(a, b) == IF a # "" THEN a ELSE b

\* The append to projHist and the update of currentByProject of one case of the
\* switch, done when the project id is known.
recordMove(r, projID, projName, colID, to, typ) ==
    IF projID = 0 THEN r
    ELSE [r EXCEPT
            !.projHist = Append(@, [ProjectID |-> projID, ProjectName |-> projName,
                                    ToColumn |-> to, Type |-> typ]),
            !.currentByProject =
               (projID :>
                  CASE typ = "added" ->
                         [present |-> TRUE, projectName |-> projName,
                          columnID |-> colID, columnName |-> to]
                    [] typ = "moved" ->
                         [present |-> TRUE, projectName |-> projName,
                          columnID |-> IF projID \in DOMAIN @ THEN @[projID].columnID ELSE 0,
                          columnName |-> to]
                    [] OTHER ->
                         IF projID \in DOMAIN @
                         THEN [@[projID] EXCEPT !.present = FALSE]
                         ELSE [present |-> FALSE, projectName |-> projName,
                               columnID |-> 0, columnName |-> ""]) @@ @]

\* case "added_to_project_v2"
addedToProject(r, ev, colOutcome, prjOutcome) ==
    LET hasCard == ev.ColumnID # 0
        c == getColumn(r, ev.ColumnID, colOutcome)
        r1 == IF hasCard THEN c.res ELSE r
        colName == IF hasCard /\ c.ok THEN c.col.Name ELSE ""
        projID == IF ev.ProjectID = 0 /\ hasCard /\ c.ok THEN c.col.ProjectID
                  ELSE ev.ProjectID
        needName == projID # 0 /\ ev.ProjectName = ""
        p == getProject(r1, projID, prjOutcome)
        r2 == IF needName THEN p.res ELSE r1
        projName == IF needName /\ p.ok THEN p.proj.Name ELSE ev.ProjectName
    IN recordMove(r2, projID, projName, ev.ColumnID,
                  firstNonEmpty(ev.ProjectColumnName, colName), "added")

\* case "project_v2_item_status_changed" and case "removed_from_project_v2":
\* the board is the one of the column looked up.
viaColumn(r, ev, colOutcome, prjOutcome, typ) ==
    LET hasCard == ev.ColumnID # 0
        c == getColumn(r, ev.ColumnID, colOutcome)
        found == hasCard /\ c.ok
        r1 == IF hasCard THEN c.res ELSE r
        projID == IF found THEN c.col.ProjectID ELSE 0
        p == getProject(r1, projID, prjOutcome)
        r2 == IF found THEN p.res ELSE r1
        projName == IF found /\ p.ok THEN p.proj.Name ELSE ""
        to == IF typ # "moved" THEN ""
              ELSE IF found /\ ev.ProjectColumnName = "" THEN c.col.Name
              ELSE ev.ProjectColumnName
    IN recordMove(r2, projID, projName, 0, to, typ)

\* One board event of the timeline through the switch of main.
handleBoardEvent(r, ev, colOutcome, prjOutcome) ==
    LET r0 == [r EXCEPT !.events = @ + 1] IN
    CASE ev.Event = "added_to_project_v2" -> addedToProject(r0, ev, colOutcome, prjOutcome)
      [] ev.Event = "project_v2_item_status_changed" ->
           viaColumn(r0, ev, colOutcome, prjOutcome, "moved")
      [] OTHER -> viaColumn(r0, ev, colOutcome, prjOutcome, "removed")

\* The board events the API can deliver: with or without a project, with or
\* without a project card naming a column.
BoardEvents ==
    {[Event |-> e, ProjectID |-> p[1], ProjectName |-> p[2], ColumnID |-> c,
      ProjectColumnName |-> n] :
       e \in {"added_to_project_v2", "project_v2_item_status_changed",
              "removed_from_project_v2"},
       p \in {<<0, "">>, <<1, "Alpha">>, <<1, "">>},
       c \in {0, 11, 12},
       n \in {"", "Doing"}}

LookupOutcomes == {"ok", "httpError", "undecodable"}

\* The loop over the timeline events of main handles one board event.
HandleBoardEvent(ev, colOutcome, prjOutcome) ==
    /\ resolver.events < MaxBoardEvents
    /\ resolver' = handleBoardEvent(resolver, ev, colOutcome, prjOutcome)
    /\ UNCHANGED <<inputVars, outputVars, ranAt, closedEnds, importVars,
                   client, importRun, files>>

NextResolver ==
    \E ev \in BoardEvents, co \in LookupOutcomes, po \in LookupOutcomes :
       HandleBoardEvent(ev, co, po)

SpecResolver == Init /\ [][NextResolver]_vars

\* ------------------------------- one import run over the repositories of the org
\* What ListAllRepos returns for the organisation.
OrgRepos == <<"api", "web", "docs">>

\* What ListAllIssues returns for a repository; the issues endpoint lists pull
\* requests too.
remoteIssues(repo) ==
    CASE repo = "api" -> <<[Number |-> 1, PullRequest |-> FALSE],
                           [Number |-> 2, PullRequest |-> TRUE]>>
      [] repo = "web" -> <<[Number |-> 3, PullRequest |-> FALSE]>>
      [] OTHER -> <<[Number |-> 4, PullRequest |-> FALSE]>>

\* What ListAllPullRequests returns for a repository.
remotePRs(repo) ==
    CASE repo = "api" -> <<[Repo |-> "api", Number |-> 2]>>
      [] repo = "web" -> <<>>
      [] OTHER -> <<[Repo |-> "docs", Number |-> 5], [Repo |-> "docs", Number |-> 6]>>

\* What ListAllPullRequestReviews returns for a pull request.
remoteReviews(pr) ==
    IF pr.Number = 6 THEN <<>>
    ELSE <<[Repo |-> pr.Repo, PullRequestNumber |-> pr.Number]>>

\* The -repo filter: an empty filter selects every repository.
selected(run, repo) == run.repoFilter = {} \/ repo \in run.repoFilter

\* The reports built for the issues of a repository: pull requests are skipped.
RECURSIVE reportsOfRepo(_, _)
reportsOfRepo(repo, list) ==
    IF list = <<>> THEN <<>>
    ELSE (IF Head(list).PullRequest THEN <<>>
          ELSE <<[Repo |-> repo, Number |-> Head(list).Number]>>)
         \o reportsOfRepo(repo, Tail(list))

\* The reviews collected for the pull requests of a repository; the listings
\* of the pull requests in rvFailed return an error and are skipped.
RECURSIVE reviewsOfRepo(_, _)
reviewsOfRepo(prs, rvFailed) ==
    IF prs = <<>> THEN <<>>
    ELSE (IF Head(prs).Number \in rvFailed THEN <<>> ELSE remoteReviews(Head(prs)))
         \o reviewsOfRepo(Tail(prs), rvFailed)

\* A variant in which a listing error ends the run with the error.
listingFailed_abort(run, scope, repo) ==
    [run EXCEPT !.failed = @ \cup {<<scope, repo>>},
                !.pc = "done", !.result = "error"]

\* A listing error in either loop: it is logged and the loop continues with the
\* next repository.
listingFailed(run, scope, repo) ==
    [run EXCEPT !.failed = @ \cup {<<scope, repo>>}, !.next = @ + 1]

\* Run up to ListAllRepos: the flags are parsed, no scope means both scopes, and
\* an error listing the repositories is returned.
StartImportRun(filter, issuesFlag, prFlag, reposOk) ==
    /\ importRun.pc = "idle"
    /\ LET both == ~issuesFlag /\ ~prFlag
           run == [importRun EXCEPT !.repoFilter = filter,
                                    !.issuesScope = issuesFlag \/ both,
                                    !.prScope = prFlag \/ both,
                                    !.reposOk = reposOk]
       IN importRun' =
            IF ~reposOk THEN [run EXCEPT !.pc = "done", !.result = "error"]
            ELSE [run EXCEPT !.repos = OrgRepos,
                             !.pc = IF run.issuesScope THEN "issues" ELSE "prs"]
    /\ UNCHANGED <<inputVars, outputVars, ranAt, closedEnds, importVars,
                   client, resolver, files>>

\* One iteration of the issues loop.
ImportRepoIssues(ok) ==
    /\ importRun.pc = "issues"
    /\ importRun.next <= Len(importRun.repos)
    /\ LET repo == importRun.repos[importRun.next]
           run == [importRun EXCEPT !.listed = @ \cup {<<"issues", repo>>}]
       IN importRun' =
            IF ~selected(importRun, repo) THEN [importRun EXCEPT !.next = @ + 1]
            ELSE IF ~ok THEN listingFailed(run, "issues", repo)
            ELSE [run EXCEPT !.reports = @ \o reportsOfRepo(repo, remoteIssues(repo)),
                             !.next = @ + 1]
    /\ UNCHANGED <<inputVars, outputVars, ranAt, closedEnds, importVars,
                   client, resolver, files>>

\* After the issues loop: WriteAllCSVs, whose error is only logged.
WriteImportCSVs(ok) ==
    /\ importRun.pc = "issues"
    /\ importRun.next > Len(importRun.repos)
    /\ LET run == IF ok THEN [importRun EXCEPT !.issueCSV = importRun.reports,
                                               !.issueCSVWritten = TRUE]
                  ELSE importRun
       IN importRun' =
            IF importRun.prScope THEN [run EXCEPT !.pc = "prs", !.next = 1]
            ELSE [run EXCEPT !.pc = "done", !.result = "nil"]
    /\ UNCHANGED <<inputVars, outputVars, ranAt, closedEnds, importVars,
                   client, resolver, files>>

\* One iteration of the pull-request loop, its review listings included.
ImportRepoPRs(ok, rvFailed) ==
    /\ importRun.pc = "prs"
    /\ importRun.next <= Len(importRun.repos)
    /\ LET repo == importRun.repos[importRun.next]
           run == [importRun EXCEPT !.listed = @ \cup {<<"prs", repo>>}]
       IN importRun' =
            IF ~selected(importRun, repo) THEN [importRun EXCEPT !.next = @ + 1]
            ELSE IF ~ok THEN listingFailed(run, "prs", repo)
            ELSE [run EXCEPT !.allPRs = @ \o remotePRs(repo),
                             !.allReviews = @ \o reviewsOfRepo(remotePRs(repo), rvFailed),
                             !.next = @ + 1]
    /\ UNCHANGED <<inputVars, outputVars, ranAt, closedEnds, importVars,
                   client, resolver, files>>

\* After the pull-request loop: the two unified files are written, errors are
\* only logged, and Run returns nil.
WriteImportPRs(okPR, okRV) ==
    /\ importRun.pc = "prs"
    /\ importRun.next > Len(importRun.repos)
    /\ importRun' =
         [importRun EXCEPT
            !.prCSV = IF okPR THEN importRun.allPRs ELSE @,
            !.prCSVWritten = okPR,
            !.rvCSV = IF okRV THEN importRun.allReviews ELSE @,
            !.rvCSVWritten = okRV,
            !.pc = "done", !.result = "nil"]
    /\ UNCHANGED <<inputVars, outputVars, ranAt, closedEnds, importVars,
                   client, resolver, files>>

RepoFilters == {{}, {"api", "web"}, {"web", "docs"}, {"docs", "cli"}}

NextImportRun ==
    \/ \E filter \in RepoFilters, issuesFlag \in BOOLEAN, prFlag \in BOOLEAN,
          reposOk \in BOOLEAN :
          StartImportRun(filter, issuesFlag, prFlag, reposOk)
    \/ \E ok \in BOOLEAN : ImportRepoIssues(ok)
    \/ \E ok \in BOOLEAN : WriteImportCSVs(ok)
    \/ \E ok \in BOOLEAN, rvFailed \in SUBSET {2, 5} : ImportRepoPRs(ok, rvFailed)
    \/ \E okPR \in BOOLEAN, okRV \in BOOLEAN : WriteImportPRs(okPR, okRV)

SpecImportRun == Init /\ [][NextImportRun]_vars

\* ------------------------------------- the files under data/ across the runs
MaxRuns == 3

\* The generations of the remote data an import can meet.
DataVersions == {1, 2}

\* One output file written by os.Create followed by the rows: a failed
\* os.Create leaves the file alone; os.Create truncates the file, so an error
\* while the rows are written leaves a file without all its rows.
writeFile(old, data, outcome) ==
    CASE outcome = "ok" -> [data |-> data, complete |-> TRUE]
      [] outcome = "createError" -> old
      [] OTHER -> [data |-> data, complete |-> FALSE]

\* The start of a run up to its first output file.  calculate loads the config
\* and reads the three input files, and returns the first error; its output is
\* computed from the issue.csv it read.  The import lists the repositories of
\* the organisation, and returns the error; its output is computed from the
\* remote data.
StartFilesRun(kind, remote, ok) ==
    /\ files.pc \in {"idle", "done"}
    /\ files.runs < MaxRuns
    /\ files' = [files EXCEPT
                   !.kind = kind,
                   !.runs = @ + 1,
                   !.before = files.content,
                   !.data = IF kind = "calculate" THEN files.content["issue.csv"].data
                            ELSE remote,
                   !.k = 1,
                   !.failed = ~ok,
                   !.pc = IF ok THEN "write" ELSE "done"]
    /\ UNCHANGED <<inputVars, outputVars, ranAt, closedEnds, importVars,
                   client, resolver, importRun>>

\* The next output file of the run: the first error ends the sequence, and the
\* files after it are not written.
WriteNextFile(outcome) ==
    /\ files.pc = "write"
    /\ LET path == outputsOf(files.kind)[files.k]
           last == files.k = Len(outputsOf(files.kind))
       IN files' = [files EXCEPT
                      !.content[path] = writeFile(@, files.data, outcome),
                      !.k = IF outcome = "ok" /\ ~last THEN @ + 1 ELSE @,
                      !.failed = outcome # "ok",
                      !.pc = IF outcome = "ok" /\ ~last THEN "write" ELSE "done"]
    /\ UNCHANGED <<inputVars, outputVars, ranAt, closedEnds, importVars,
                   client, resolver, importRun>>

WriteOutcomes == {"ok", "createError", "writeError"}

NextFiles ==
    \/ \E kind \in {"import", "calculate"}, remote \in DataVersions, ok \in BOOLEAN :
          StartFilesRun(kind, remote, ok)
    \/ \E outcome \in WriteOutcomes : WriteNextFile(outcome)

SpecFiles == Init /\ [][NextFiles]_vars

\* ------------------------------------------------- vocabulary of the claims

Ran == ~IsNil(ranAt)

sixSum(a) == a.InBacklogs + a.InReady + a.InDev + a.InReview + a.InQA + a.WaitingToProd

zeroAgg == [OpenedBugs |-> 0, InBacklogs |-> 0, InReady |-> 0, InDev |-> 0,
            InReview |-> 0, InQA |-> 0, WaitingToProd |-> 0]

\* The counters of a project in an output, all zero when it has no row there.
aggAt(map, k) == IF k \in DOMAIN map THEN map[k] ELSE zeroAgg

\* Furthest reached stage, given which timestamps count as seen.
furthestStage(r, seen(_)) ==
    IF seen(r.WaitingToPodStartDatetime) THEN "waiting"
    ELSE IF seen(r.QAStartDatetime) THEN "qa"
    ELSE IF seen(r.ReviewStartDatetime) THEN "review"
    ELSE IF seen(r.DevStartDatetime) THEN "dev"
    ELSE IF seen(r.PutInReadyStartDatetime) THEN "ready"
    ELSE "backlog"

\* The six counters a set of classified rows should give for project key k.
expectedBuckets(rows, k, in(_), stage(_)) ==
    LET cnt(st) == CountIf({m \in DOMAIN rows : projKey(rows[m]) = k /\ in(rows[m]) /\ stage(rows[m]) = st})
    IN [InBacklogs |-> cnt("backlog"), InReady |-> cnt("ready"), InDev |-> cnt("dev"),
        InReview |-> cnt("review"), InQA |-> cnt("qa"), WaitingToProd |-> cnt("waiting")]

buckets(a) == [InBacklogs |-> a.InBacklogs, InReady |-> a.InReady, InDev |-> a.InDev,
               InReview |-> a.InReview, InQA |-> a.InQA, WaitingToProd |-> a.WaitingToProd]

keysOf(rows) == {projKey(rows[i]) : i \in DOMAIN rows}

createdBy(r, cutoff) == r.CreationDatetime <= cutoff

\* ----------------------------------------------------------------- claims

\* C1: stock classification is "furthest reached stage wins": in stocks.csv and
\* in every week of stocks_week.csv an issue counts in in_qa when qa_start is set
\* (by the cutoff) and waiting_to_prod_start is not, in in_review when
\* review_start is set and no later stage is, and so on down to in_backlogs.
C1_FurthestStageWins ==
    Ran =>
      LET open == openIssuesOf(calculated)
          set(t) == ~IsNil(t)
      IN /\ \A k \in keysOf(open) :
              buckets(aggAt(stocks, k)) =
                expectedBuckets(open, k, LAMBDA r : TRUE,
                                LAMBDA r : furthestStage(r, set))
         /\ \A w \in DOMAIN stocksWeek : \A k \in keysOf(open) :
              LET cutoff == cutoffOf(stocksWeek[w].Week)
                  seen(t) == ~IsNil(t) /\ Val(t) <= cutoff
              IN buckets(aggAt(stocksWeek[w].Rows, k)) =
                   expectedBuckets(open, k, LAMBDA r : createdBy(r, cutoff),
                                   LAMBDA r : furthestStage(r, seen))

\* C2: every week of stocks_week.csv counts, in exactly one bucket of its
\* project, every computed issue created by the cutoff and not completed by the
\* cutoff, the issues completed after that cutoff included.
C2_WeeklyStocksCountEveryIssueInStock ==
    Ran =>
      \A w \in DOMAIN stocksWeek : \A k \in keysOf(calculated) :
        LET cutoff == cutoffOf(stocksWeek[w].Week)
            inStock(r) == /\ createdBy(r, cutoff)
                          /\ (IsNil(r.EndDatetime) \/ Val(r.EndDatetime) > cutoff)
        IN sixSum(aggAt(stocksWeek[w].Rows, k)) =
             CountIf({n \in DOMAIN calculated : projKey(calculated[n]) = k /\ inStock(calculated[n])})

sixFlags == {"inBacklog", "inReady", "inDev", "inReview", "inQA", "waiting"}

\* C7: the classification is exclusive: every open issue sets exactly one of the
\* six stage flags, so the six counters of a project in stocks.csv add up to the
\* number of its open issues; likewise in every week of stocks_week.csv for the
\* issues in stock at the cutoff.
C7_ExactlyOneBucket ==
    Ran =>
      LET open == openIssuesOf(calculated)
      IN /\ \A i \in DOMAIN open :
              Cardinality({f \in sixFlags : stageFlags(open[i])[f]}) = 1
         /\ keysOf(open) = DOMAIN stocks
         /\ \A k \in DOMAIN stocks :
              sixSum(stocks[k]) = CountIf({n \in DOMAIN open : projKey(open[n]) = k})
         /\ \A w \in DOMAIN stocksWeek :
              LET cutoff == cutoffOf(stocksWeek[w].Week) IN
              /\ \A i \in DOMAIN open :
                   createdBy(open[i], cutoff) =>
                     Cardinality({f \in sixFlags : stageAt(open[i], cutoff)[f]}) = 1
              /\ \A k \in keysOf(open) :
                   sixSum(aggAt(stocksWeek[w].Rows, k)) =
                     CountIf({n \in DOMAIN open : projKey(open[n]) = k /\ createdBy(open[n], cutoff)})

\* C7 witness: a run with an open issue that has reached two stages (dev and QA)
\* and a weekly axis of at least two weeks.
C7_Witness ==
    /\ Ran
    /\ Len(stocksWeek) >= 2
    /\ \E i \in DOMAIN calculated :
         /\ IsNil(calculated[i].EndDatetime)
         /\ ~IsNil(calculated[i].DevStartDatetime)
         /\ ~IsNil(calculated[i].QAStartDatetime)

\* The stage timestamps of a computed issue that are set (end excluded).
stageTimes(r) ==
    {Val(cands(r)[c]) : c \in {d \in 1..7 : ~IsNil(cands(r)[d])}}

\* C10: in the most recent week that has rows in stocks_week.csv, when no issue
\* has a stage timestamp after that week's cutoff, every counter of every project
\* equals the counter of stocks.csv.
C10_LastWeekEqualsSnapshot ==
    Ran =>
      LET emitted == {w \in DOMAIN stocksWeek : DOMAIN stocksWeek[w].Rows # {}} IN
      emitted # {} =>
        LET last == stocksWeek[Max(emitted)]
            cutoff == cutoffOf(last.Week)
        IN (\A i \in DOMAIN calculated : \A t \in stageTimes(calculated[i]) : t <= cutoff)
           => \A k \in DOMAIN stocks \cup DOMAIN last.Rows :
                aggAt(stocks, k) = aggAt(last.Rows, k)

\* Two status names are the same name: equal after trimming, ignoring case.
sameName(a, b) == ToLower(TrimSpace(a)) = ToLower(TrimSpace(b))

\* The times of the moved rows of a file whose target is one of the names.
moveTimes(file, names) ==
    {file[k].At : k \in {j \in DOMAIN file :
        /\ file[j].EventType = "moved"
        /\ \E n \in names : sameName(file[j].ToColumn, n)}}

closedTimes(file) == {file[k].At : k \in {j \in DOMAIN file : file[j].Type = "closed"}}

minOrNil(S) == IF S = {} THEN Nil ELSE Some(Min(S))

namesOf(list) == {list[k] : k \in DOMAIN list}

configured(r) == r.ProjectID \in DOMAIN projCfgByID

\* The completion-stage names that apply to a computed issue.
completionNames(r) ==
    IF configured(r) THEN namesOf(projCfgByID[r.ProjectID].InProdStartColumns)
    ELSE {"Archive"}

\* C3: end is the earlier of the first move to a completion-stage name and the
\* first closed status event; the only one of the two when one is missing; absent
\* when both are.
C3_EndIsEarliestCompletion ==
    Ran =>
      \A i \in DOMAIN calculated :
        LET r == calculated[i]
            moves == moveTimes(projRows[r.ID], completionNames(r))
            closes == closedTimes(statusRows[r.ID])
        IN r.EndDatetime = minOrNil(moves \cup closes)

\* C3 witness: an issue moved to a completion stage and closed twice, the first
\* close being earlier than the move and written after the second close.
C3_Witness ==
    /\ Ran
    /\ \E i \in DOMAIN calculated :
         LET r == calculated[i]
             moves == moveTimes(projRows[r.ID], completionNames(r))
             st == statusRows[r.ID]
         IN /\ moves # {}
            /\ Len(st) = 3
            /\ st[2].Type = "closed" /\ st[3].Type = "closed"
            /\ st[3].At < st[2].At
            /\ st[3].At < Min(moves)
            /\ r.EndDatetime = Some(st[3].At)

\* The seven stage timestamps of a computed issue and the configured names of each.
stageNames(pc) ==
    [LeadTimeStartDatetime |-> pc.LeadTimeColumns,
     CycleTimeStartDatetime |-> pc.CycleTimeColumns,
     PutInReadyStartDatetime |-> pc.PutInReadyColumns,
     DevStartDatetime |-> pc.DevStartColumns,
     ReviewStartDatetime |-> pc.ReviewStartColumns,
     QAStartDatetime |-> pc.QAStartColumns,
     WaitingToPodStartDatetime |-> pc.WaitingToProdStartCols]

stageFields == DOMAIN stageNames(projCfgByID["P1"])

\* The minimum time over the moved rows of the issue that target a name of stage f.
firstMoveOfStage(r, f) ==
    minOrNil(moveTimes(projRows[r.ID], namesOf(stageNames(projCfgByID[r.ProjectID])[f])))

\* C4 as stated: on a configured board every stage timestamp is the minimum time
\* over the moved events that target a name of the stage, and absent iff there is
\* no such event.
C4_StageIsFirstMove ==
    Ran =>
      \A i \in DOMAIN calculated :
        configured(calculated[i]) =>
          \A f \in stageFields : calculated[i][f] = firstMoveOfStage(calculated[i], f)

\* C4 as amended: the same, except that for an issue with an end, cycle_start
\* and dev_start with no matching moved event take the value of lead_start.
C4_StageIsFirstMoveOrBackfill ==
    Ran =>
      \A i \in DOMAIN calculated :
        LET r == calculated[i] IN
        configured(r) =>
          \A f \in stageFields :
            IF /\ f \in {"CycleTimeStartDatetime", "DevStartDatetime"}
               /\ ~IsNil(r.EndDatetime)
               /\ IsNil(firstMoveOfStage(r, f))
            THEN r[f] = firstMoveOfStage(r, "LeadTimeStartDatetime")
            ELSE r[f] = firstMoveOfStage(r, f)

\* C4 witness: two moves to the dev column written latest first, under a name
\* that differs from the configured one by case and spacing; dev_start is the
\* earlier of the two.
C4_Witness ==
    /\ Ran
    /\ Len(calculated) = 1
    /\ configured(calculated[1])
    /\ Len(projRows[1]) = 2
    /\ projRows[1][1].EventType = "moved" /\ projRows[1][2].EventType = "moved"
    /\ projRows[1][1].ToColumn = "in progress " /\ projRows[1][2].ToColumn = "in progress "
    /\ projRows[1][2].At < projRows[1][1].At
    /\ calculated[1].DevStartDatetime = Some(projRows[1][2].At)

\* All orders in which the rows of a file can be written.
orderings(file) ==
    {[k \in DOMAIN file |-> file[p[k]]] : p \in Permutations(DOMAIN file)}

\* C5: the computed issue does not depend on the order of the rows: every
\* ordering of the issue's status rows and project event rows gives the row that
\* the run computed.
C5_OrderIndependent ==
    Ran =>
      \A i \in DOMAIN calculated :
        LET id == calculated[i].ID IN
        \A pf \in orderings(projRows[id]) : \A sf \in orderings(statusRows[id]) :
          computeIssue(id, issues[id], pf, sf) = calculated[i]

\* The calendar-week number of a day, and the observed weeks of the completions.
weekNo(t) == t \div WeekDays
endWeeks == {weekNo(closedEnds[i]) : i \in DOMAIN closedEnds}

\* W: the calendar weeks from the first to the last observed week, inclusive.
spanWeeks == IF endWeeks = {} THEN 0 ELSE Max(endWeeks) - Min(endWeeks) + 1

\* Row k of throughput_week.csv is the k-th calendar week from the first observed
\* week, with the number of completions of that week.
rowIsWeek(k) ==
    /\ throughput[k].Week = (Min(endWeeks) + k - 1) * WeekDays
    /\ throughput[k].Count =
         Cardinality({i \in DOMAIN closedEnds : weekNo(closedEnds[i]) = Min(endWeeks) + k - 1})

C9_LimitsChangeAtBlockStart ==
    Ran =>
      \A k \in DOMAIN throughput : \A j \in DOMAIN throughput :
        LET differ == throughput[j].UCL # throughput[k].UCL
                      \/ throughput[j].LCL # throughput[k].LCL
        IN /\ spanWeeks < BlockWeeks => ~differ
           /\ (spanWeeks >= BlockWeeks /\ k = j + 1 /\ differ) => (k - 1) % BlockWeeks = 0

\* C9 witness: an axis of 15 weeks whose first two blocks have different limits
\* and whose trailing weeks (indices 12 and 13) carry the limits of the second.
C9_Witness ==
    /\ Ran
    /\ Len(throughput) = 14
    /\ throughput[6].UCL # throughput[7].UCL
    /\ throughput[12].UCL # 0
    /\ throughput[13].UCL = throughput[12].UCL
    /\ throughput[14].UCL = throughput[12].UCL

\* The calendar weeks from the first to the last observed week that are not in
\* throughput_week.csv.
omittedWeeks ==
    IF endWeeks = {} THEN {}
    ELSE {w \in Min(endWeeks)..Max(endWeeks) :
            ~\E k \in DOMAIN throughput : throughput[k].Week = w * WeekDays}

\* C20: the only week left out of throughput_week.csv is the week in progress at
\* the time of the run; a week that has fully elapsed before the run is in the
\* output, whatever the date of the latest completion.
C20_OnlyRunningWeekOmitted ==
    Ran => \A w \in omittedWeeks : w = weekNo(Val(ranAt))

\* The board of an issue: the board of its earliest board event.
boardOf(id) == issueProject(readProject(projRows[id]))

typeListed(pc, typ) ==
    \E t \in DOMAIN pc.Types : ToLower(TrimSpace(pc.Types[t])) = ToLower(TrimSpace(typ))

\* The issue's board is excluded by the config, or restricted to types that do
\* not include the issue's.
excludedByConfig(id) ==
    /\ boardOf(id) \in DOMAIN projCfgByID
    /\ \/ projCfgByID[boardOf(id)].Exclude
       \/ /\ projCfgByID[boardOf(id)].Types # <<>>
          /\ ~typeListed(projCfgByID[boardOf(id)], issues[id].Type)

keptIds == {id \in DOMAIN issues : ~excludedByConfig(id)}

\* The computed issue of an issue the config keeps.
keptRow(id) == computeIssue(id, issues[id], projRows[id], statusRows[id])

keptClosed == {id \in keptIds : ~IsNil(keptRow(id).EndDatetime)}
keptOpen == keptIds \ keptClosed

\* C18: an issue whose board is excluded, or whose board lists types that do not
\* include the issue's type, is in none of the outputs (computed issues, monthly
\* summary, weekly throughput, stocks, weekly stocks), which count the other
\* issues only; every other issue is in the computed issues exactly once.
C18_ExcludedIssuesInNoOutput ==
    Ran =>
      /\ \A id \in DOMAIN issues :
           Cardinality({n \in DOMAIN calculated : calculated[n].ID = id})
             = (IF id \in keptIds THEN 1 ELSE 0)
      /\ \A k \in DOMAIN cycleTime :
           cycleTime[k].IssueCount =
             Cardinality({id \in keptClosed :
                            MonthOf(Val(keptRow(id).EndDatetime)) = cycleTime[k].Month})
      /\ \A k \in DOMAIN throughput :
           throughput[k].Count =
             Cardinality({id \in keptClosed :
                            ISOWeek(Val(keptRow(id).EndDatetime)) = throughput[k].Week})
      /\ \A k \in DOMAIN stocks \cup {projKey(keptRow(id)) : id \in DOMAIN issues} :
           sixSum(aggAt(stocks, k)) =
             Cardinality({id \in keptOpen : projKey(keptRow(id)) = k})
      /\ \A w \in DOMAIN stocksWeek :
           \A k \in DOMAIN stocksWeek[w].Rows \cup {projKey(keptRow(id)) : id \in DOMAIN issues} :
             sixSum(aggAt(stocksWeek[w].Rows, k)) =
               Cardinality({id \in keptOpen :
                              /\ projKey(keptRow(id)) = k
                              /\ createdBy(keptRow(id), cutoffOf(stocksWeek[w].Week))})

\* C18 witness: a run over an issue dropped by the type list of its board and
\* an issue of a listed type (written in another case) kept on the same board,
\* with the dropped issue completed.
C18_Witness ==
    /\ Ran
    /\ DOMAIN issues = {1, 2}
    /\ boardOf(1) = "P4" /\ boardOf(2) = "P4"
    /\ excludedByConfig(1) /\ ~excludedByConfig(2)
    /\ ~IsNil(keptRow(1).EndDatetime)
    /\ Len(calculated) = 1

\* The response the client received last.
lastResp == Val(client.resp)

\* HTTP 403 with X-RateLimit-Remaining: 0.
quotaExhausted(r) == r.status = 403 /\ r.remaining = "0"

\* A 200 whose GraphQL errors tell of a rate limit.
graphqlRateLimited(r) ==
    r.status = 200 /\ \E m \in DOMAIN errorsOf(r.body) : rateLimitHint(errorsOf(r.body)[m])

\* The reset header is there and is an integer.
usableReset(r) == r.reset # "" /\ ~IsNil(parseInt(r.reset))

C12_NoResetFailsRateLimited ==
    (~IsNil(client.resp) /\ ~usableReset(lastResp)) =>
      /\ (quotaExhausted(lastResp) /\ client.pc # "response") =>
           client.pc = "done" /\ client.result = "rateLimited"
      /\ (graphqlRateLimited(lastResp)
            /\ (client.pc = "newRequest" \/ (client.pc = "done" /\ client.result # "cancelled"))) =>
           client.pc = "done" /\ client.result = "rateLimited"

\* The records of all the pages, in page order.
RECURSIVE flatten(_)
flatten(pages) == IF pages = <<>> THEN <<>> ELSE Head(pages) \o flatten(Tail(pages))

\* The cursors of the requests issued, a re-issued cursor counted once.
RECURSIVE cursorsAsked(_)
cursorsAsked(reqs) ==
    IF Len(reqs) <= 1 THEN reqs
    ELSE IF reqs[1] = reqs[2] THEN cursorsAsked(Tail(reqs))
    ELSE <<reqs[1]>> \o cursorsAsked(Tail(reqs))

\* Every page is asked for with the cursor its predecessor returned, starting
\* without a cursor; a listing that returned has asked for every page.
cursorChain ==
    /\ cursorsAsked(client.requests) = [k \in 1..Len(cursorsAsked(client.requests)) |-> k - 1]
    /\ client.result = "ok" => Len(cursorsAsked(client.requests)) = Len(client.pages)

C19_NoSleepAfterCancel == ~client.sleptAfterCancel

\* C16: every board event of a timeline (added, moved, removed) gives exactly one
\* event of the movement history, also when the board or column lookup fails or
\* the event names no board.
C16_EveryBoardEventRecorded == Len(resolver.projHist) = resolver.events

\* C17: within a run at most one lookup request is issued per column id and per
\* board id, whatever the first lookup met, and every resolution of an id
\* returns the same result.
C17_OneLookupPerId ==
    \A key \in DOMAIN resolver.requests :
      /\ resolver.requests[key] <= 1
      /\ Cardinality(resolver.answers[key]) <= 1

\* C6: every issue report of the import, the ones whose timeline fetch failed
\* included, has a status history that starts with an "opened" event at the
\* issue's creation time.
C6_HistoryStartsWithOpened ==
    \A i \in DOMAIN reports :
      /\ Len(reports[i].StatusHistory) >= 1
      /\ reports[i].StatusHistory[1].Type = "opened"
      /\ reports[i].StatusHistory[1].At = reports[i].CreatedAt

\* The reports of the selected repositories whose issue listing succeeded, in
\* the order of the repositories (C14).
RECURSIVE succeededReports(_, _)
succeededReports(run, repos) ==
    IF repos = <<>> THEN <<>>
    ELSE (IF selected(run, Head(repos)) /\ <<"issues", Head(repos)>> \notin run.failed
          THEN reportsOfRepo(Head(repos), remoteIssues(Head(repos)))
          ELSE <<>>)
         \o succeededReports(run, Tail(repos))

\* The pull requests of the selected repositories whose listing succeeded (C14).
RECURSIVE succeededPRs(_, _)
succeededPRs(run, repos) ==
    IF repos = <<>> THEN <<>>
    ELSE (IF selected(run, Head(repos)) /\ <<"prs", Head(repos)>> \notin run.failed
          THEN remotePRs(Head(repos))
          ELSE <<>>)
         \o succeededPRs(run, Tail(repos))

\* The selected repositories of the organisation (C14).
selectedRepos(run) == {OrgRepos[i] : i \in {j \in DOMAIN OrgRepos : selected(run, OrgRepos[j])}}

\* C14: per-repository failure isolation.  Once the repositories are listed,
\* whatever subset of the issue listings and pull-request listings fails, the
\* finished run has issued the listing of every selected repository in each
\* scope it runs, has collected the issues (pull requests) of exactly the
\* selected repositories whose listing succeeded, has them in the CSV output it
\* wrote, and returns nil.
C14_FailureIsolation ==
    (importRun.pc = "done" /\ importRun.reposOk) =>
      /\ importRun.result = "nil"
      /\ importRun.issuesScope =>
            /\ \A repo \in selectedRepos(importRun) : <<"issues", repo>> \in importRun.listed
            /\ importRun.reports = succeededReports(importRun, OrgRepos)
            /\ importRun.issueCSVWritten => importRun.issueCSV = importRun.reports
      /\ importRun.prScope =>
            /\ \A repo \in selectedRepos(importRun) : <<"prs", repo>> \in importRun.listed
            /\ importRun.allPRs = succeededPRs(importRun, OrgRepos)
            /\ importRun.prCSVWritten => importRun.prCSV = importRun.allPRs

\* A finished run in which an issue listing and a pull-request listing failed,
\* and the files written hold the issues and pull requests of other repositories.
C14_Witness ==
    /\ importRun.pc = "done"
    /\ importRun.result = "nil"
    /\ \E a, b \in selectedRepos(importRun) :
         /\ <<"issues", a>> \in importRun.failed
         /\ <<"prs", b>> \in importRun.failed
    /\ importRun.issueCSVWritten /\ importRun.issueCSV # <<>>
    /\ importRun.prCSVWritten /\ importRun.prCSV # <<>>

\* C15: a failed run leaves the previous output in place.  When an import or a
\* calculate run has ended on an error (reading its input, or creating or
\* writing one of its output files), every file under data/ has the content it
\* had when the run started.
C15_FailedRunLeavesOutput ==
    (files.pc = "done" /\ files.failed) => files.content = files.before

\* C21: in every row of throughput_week.csv, center is the mean the row's limits
\* were computed from (ucl = center + 3*sqrt(center), lcl = max(0, center -
\* 3*sqrt(center))), so lcl <= center <= ucl; rows with the same limits have the
\* same center, and all rows have the same center when the axis has fewer than
\* six weeks.
C21_CenterIsMeanOfLimits ==
    Ran =>
      \A k \in DOMAIN throughput :
        /\ throughput[k].UCL = uclOf(throughput[k].Center)
        /\ throughput[k].LCL = lclOf(throughput[k].Center)
        /\ throughput[k].LCL <= throughput[k].Center
        /\ throughput[k].Center <= throughput[k].UCL
        /\ \A j \in DOMAIN throughput :
             (spanWeeks < BlockWeeks
              \/ (throughput[j].UCL = throughput[k].UCL /\ throughput[j].LCL = throughput[k].LCL))
               => throughput[j].Center = throughput[k].Center

\* The number of completions in the week at (0-based) index i of the axis.
axisCount(i) ==
    Cardinality({n \in DOMAIN closedEnds : weekNo(closedEnds[n]) = Min(endWeeks) + i})

RECURSIVE axisSum(_, _)
axisSum(from, to) == IF from > to THEN 0 ELSE axisCount(from) + axisSum(from + 1, to)

\* The mean of the six weeks ending at axis index blockEnd.
trailingMean(blockEnd) == (axisSum(blockEnd - 5, blockEnd) * Scale) \div BlockWeeks

\* The last axis index before week i at which limits are recomputed (5, 11, ...).
lastBlockEndBefore(i) == BlockWeeks * (i \div BlockWeeks) - 1

\* C22: with six or more weeks on the axis, the limits of a week after the first
\* block are those computed at the last sixth week before it (axis index 5, 11,
\* 17, ...) from the six weeks ending there, so they are held for the following
\* block and for a trailing partial block, and never come from counts of weeks
\* later than the week.
C22_LimitsHeldForFollowingBlock ==
    (Ran /\ spanWeeks >= BlockWeeks) =>
      \A k \in DOMAIN throughput :
        (k - 1) >= BlockWeeks =>
          /\ throughput[k].UCL = uclOf(trailingMean(lastBlockEndBefore(k - 1)))
          /\ throughput[k].LCL = lclOf(trailingMean(lastBlockEndBefore(k - 1)))

\* The bound of jitter/10, in milliseconds.
jitterCap == 10

\* The response in hand is a 2xx that reports a remaining quota below the
\* low-water threshold.
lowQuotaSuccess ==
    /\ client.pc = "response"
    /\ lastResp.status >= 200 /\ lastResp.status < 300
    /\ ~IsNil(parseInt(lastResp.remaining))
    /\ Val(parseInt(lastResp.remaining)) < lowBudget

\* C23: the delay do inserts before it returns a 2xx response that reports a
\* remaining quota below the low-water threshold is at most the cap plus the
\* jitter, whatever the remaining quota (0 included) and the reset time.
C23_PacingDelayCapped ==
    [][(lowQuotaSuccess /\ client'.pc = "decode")
         => client'.now - client.now <= pacingCap + jitterCap]_vars

\* The board events of a report for a board, and the latest of them by timestamp.
boardEventsOf(rep, pid) ==
    {k \in DOMAIN rep.ProjectHistory : rep.ProjectHistory[k].ProjectID = pid}

latestOf(rep, ks) ==
    {k \in ks : \A j \in ks : rep.ProjectHistory[j].At <= rep.ProjectHistory[k].At}

placementsOf(rep, pid) == {c \in rep.CurrentProjects : c.ProjectID = pid}

\* C24: in every report, whatever the order in which the events were
\* delivered, a board whose latest event by timestamp is not a removal is in the
\* current placements, with the target of its latest non-removed event as
\* column, and a board whose latest event by timestamp is a removal is not.
\* (Events of a board that share the latest timestamp decide only when they
\* agree.)
C24_CurrentPlacementsFollowTimestamps ==
    \A i \in DOMAIN reports :
      LET rep == reports[i] IN
      \A pid \in {rep.ProjectHistory[k].ProjectID : k \in DOMAIN rep.ProjectHistory} :
        LET latest == latestOf(rep, boardEventsOf(rep, pid))
            kept == latestOf(rep, {k \in boardEventsOf(rep, pid) :
                                     rep.ProjectHistory[k].Type # "removed"})
        IN /\ (\A k \in latest : rep.ProjectHistory[k].Type = "removed")
                => placementsOf(rep, pid) = {}
           /\ (\A k \in latest : rep.ProjectHistory[k].Type # "removed")
                => /\ Cardinality(placementsOf(rep, pid)) = 1
                   /\ \A c \in placementsOf(rep, pid) :
                        \E k \in kept : c.ColumnName = rep.ProjectHistory[k].ToColumn

\* The sorted board events of the issue of an output row.
boardEventsOfRow(row) == readProject(projRows[row.ID])

\* C25: for every issue on a configured board, open or completed, with a known
\* lead start: when no moved event matches the cycle-start columns the cycle
\* start is the lead start, and when none matches the dev-start columns the dev
\* start is the lead start.
C25_BackfillFromLeadStart ==
    Ran =>
      \A n \in DOMAIN calculated :
        LET row == calculated[n] IN
        (row.ProjectID \in DOMAIN projCfgByID /\ ~IsNil(row.LeadTimeStartDatetime)) =>
          /\ IsNil(firstMoveToAny(boardEventsOfRow(row),
                                  projCfgByID[row.ProjectID].CycleTimeColumns))
               => row.CycleTimeStartDatetime = row.LeadTimeStartDatetime
          /\ IsNil(firstMoveToAny(boardEventsOfRow(row),
                                  projCfgByID[row.ProjectID].DevStartColumns))
               => row.DevStartDatetime = row.LeadTimeStartDatetime

\* C26: no negative durations.  For every completed issue of the output, the
\* end is not before the lead start when the lead start is set, and not before
\* the cycle start when the cycle start is set, so that every term summed by
\* the monthly summary is >= 0 and so is every average it writes.
C26_NoNegativeDurations ==
    Ran =>
      /\ \A n \in DOMAIN calculated :
           LET row == calculated[n] IN
           ~IsNil(row.EndDatetime) =>
             /\ ~IsNil(row.LeadTimeStartDatetime)
                  => Val(row.EndDatetime) >= Val(row.LeadTimeStartDatetime)
             /\ ~IsNil(row.CycleTimeStartDatetime)
                  => Val(row.EndDatetime) >= Val(row.CycleTimeStartDatetime)
      /\ \A k \in DOMAIN cycleTime :
           cycleTime[k].LeadDaysAvg >= 0 /\ cycleTime[k].CycleDaysAvg >= 0

\* The sorted events of an output row's issue on the board written in the row.
ownBoardEvents(row) ==
    SelectSeq(boardEventsOfRow(row), LAMBDA e : e.ProjectID = row.ProjectID)

\* C27: the stage timestamps and the end of an output row are those derived
\* from the move events of the board written in the row (the board of the
\* issue's earliest board event), whose configuration is applied; the events of
\* any other board the issue is on change none of them.
C27_OnlyOwnBoardSetsStages ==
    Ran =>
      \A n \in DOMAIN calculated :
        LET row == calculated[n] IN
        row = (IF row.ProjectID \in DOMAIN projCfgByID
               THEN configuredRow(row.ID, issues[row.ID], projCfgByID[row.ProjectID],
                                  ownBoardEvents(row), readStatus(statusRows[row.ID]))
               ELSE fallbackRow(row.ID, issues[row.ID], ownBoardEvents(row),
                                readStatus(statusRows[row.ID])))

\* The times of the "closed" events of an issue.
closedTimesOf(id) ==
    {statusRows[id][k].At : k \in {j \in DOMAIN statusRows[id] : statusRows[id][j].Type = "closed"}}

\* The issue has a "reopened" event after its first "closed" event.
reopenedAfterClose(id) ==
    /\ closedTimesOf(id) # {}
    /\ \E k \in DOMAIN statusRows[id] :
         /\ statusRows[id][k].Type = "reopened"
         /\ statusRows[id][k].At > Min(closedTimesOf(id))

\* The week of the end of a completed issue the config keeps.
endWeekOf(id) == ISOWeek(Val(keptRow(id).EndDatetime))

\* The last week of the throughput axis: the week of the latest end.
lastEndWeek == Max({endWeekOf(id) : id \in keptClosed})

\* The throughput row of week wk counts the completed issues that ended in it.
countedInWeek(wk) ==
    \E k \in DOMAIN throughput :
      /\ throughput[k].Week = wk
      /\ throughput[k].Count = Cardinality({j \in keptClosed : endWeekOf(j) = wk})

\* Every issue the config keeps has one output row; an issue with a "closed"
\* event is completed, with an end no later than its first closure, whatever
\* follows; the stocks and the weekly stocks count the open issues only.
stickyCompletion ==
    /\ \A id \in keptIds :
         /\ Cardinality({n \in DOMAIN calculated : calculated[n].ID = id}) = 1
         /\ closedTimesOf(id) # {} =>
              /\ id \in keptClosed
              /\ Val(keptRow(id).EndDatetime) <= Min(closedTimesOf(id))
    /\ \A k \in DOMAIN stocks \cup {projKey(keptRow(id)) : id \in keptIds} :
         sixSum(aggAt(stocks, k)) = Cardinality({id \in keptOpen : projKey(keptRow(id)) = k})
    /\ \A w \in DOMAIN stocksWeek :
         \A k \in DOMAIN stocksWeek[w].Rows \cup {projKey(keptRow(id)) : id \in keptIds} :
           sixSum(aggAt(stocksWeek[w].Rows, k)) =
             Cardinality({id \in keptOpen :
                            /\ projKey(keptRow(id)) = k
                            /\ createdBy(keptRow(id), cutoffOf(stocksWeek[w].Week))})

C29_BugLabelSetsIsBug ==
    \A i \in DOMAIN reports :
      /\ (\E l \in DOMAIN reports[i].Labels : ToLower(reports[i].Labels[l]) = "bug")
           => reports[i].IsBug
      /\ reports[i].Type = "bug" => reports[i].IsBug

\* do has returned to its caller: a response (handed on for decoding) or an error.
doReturned == client.pc \in {"decode", "done"}

\* A step of do that goes back to the top of its loop after the answer it
\* retries on.
retryStep ==
    /\ client.pc = "response"
    /\ retriedResponse(lastResp)
    /\ client'.pc = "do"

\* C30: every call of do eventually returns, given that every sleep ends and
\* that the server eventually answers with something other than a
\* quota-exhaustion response carrying a parseable reset time; and every retry
\* comes after a strictly positive sleep unless the reset time plus the safety
\* margin has already passed.
C30_DoEventuallyReturns ==
    /\ (client.pc = "do") ~> doReturned
    /\ [][retryStep =>
            \/ client'.now > client.now
            \/ client.now >= Unix(Val(parseInt(lastResp.reset))) + rateSafetyMargin]_vars

\* C30 witness: do returned a response after three retries, at least one of
\* them after a sleep.
C30_Witness ==
    /\ client.kind = "do"
    /\ client.pc = "decode"
    /\ Len(client.requests) = MaxRequests
    /\ client.now >= Unix(3) + rateSafetyMargin

=============================================================================
